---- MODULE Spec2Model ----
(***************************************************************************)
(* Model of pirrtools: the rich-table renderer UtilsAccessor.to_rich of    *)
(* src/pirrtools/pandas.py and the helpers it calls.                       *)
(*                                                                         *)
(* A state is what a caller of the library can observe between two calls:  *)
(* the pandas object the accessor is attached to (obj), the caller's own   *)
(* Styler object (styler), the keyword arguments of the caller's call      *)
(* (args), the outcome of the last call (ret) and the values of the        *)
(* locals of that call the properties talk about (locals).                 *)
(*                                                                         *)
(* CSS values and Rich style strings are sequences of one-character        *)
(* strings, so that strip(), lower() and f-string concatenation are        *)
(* computed and not assumed.  Display text is a TLA+ string (only its      *)
(* length and concatenation are used).  Python's None is the empty tuple,  *)
(* and a present optional value v is <<v>>.                                *)
(***************************************************************************)
EXTENDS Integers, Sequences, FiniteSets, TLC

VARIABLES obj, styler, args, ret, locals

vars == <<obj, styler, args, ret, locals>>

None == <<>>
Some(v) == <<v>>
IsNone(x) == x = <<>>
Val(x) == x[1]

\* a local variable: value is computed once, where the assignment stands,
\* and Body reads it by name
Local(value, Body(_)) == CHOOSE r \in {Body(v) : v \in {value}} : TRUE

Max2(a, b) == IF a >= b THEN a ELSE b

RECURSIVE MaxOf(_)
MaxOf(s) == IF s = <<>> THEN 0 ELSE Max2(Head(s), MaxOf(Tail(s)))

-----------------------------------------------------------------------------
(* Character sequences.                                                    *)

UpperAlpha == <<"A","B","C","D","E","F","G","H","I","J","K","L","M",
                "N","O","P","Q","R","S","T","U","V","W","X","Y","Z">>
LowerAlpha == <<"a","b","c","d","e","f","g","h","i","j","k","l","m",
                "n","o","p","q","r","s","t","u","v","w","x","y","z">>

\* str.lower() on one character
LowerChar(c) ==
    IF \E i \in DOMAIN UpperAlpha : UpperAlpha[i] = c
    THEN LowerAlpha[CHOOSE i \in DOMAIN UpperAlpha : UpperAlpha[i] = c]
    ELSE c

\* str.lower()
StrLower(s) == [i \in DOMAIN s |-> LowerChar(s[i])]

\* the characters str.strip() removes
Whitespace == {" ", "\t", "\n", "\r"}

RECURSIVE LStrip(_)
LStrip(s) ==
    IF s # <<>> /\ Head(s) \in Whitespace THEN LStrip(Tail(s)) ELSE s

RECURSIVE RStrip(_)
RStrip(s) ==
    IF s # <<>> /\ s[Len(s)] \in Whitespace
    THEN RStrip(SubSeq(s, 1, Len(s) - 1))
    ELSE s

\* str.strip()
StrStrip(s) == RStrip(LStrip(s))

\* CSS values that occur in the model
css_empty       == <<>>
css_space       == <<" ">>
css_red         == <<"r","e","d">>
css_RED         == <<"R","E","D">>
css_transparent == <<"t","r","a","n","s","p","a","r","e","n","t">>
css_Transparent == <<"T","r","a","n","s","p","a","r","e","n","t">>
css_inherit_sp  == <<" ","i","n","h","e","r","i","t"," ">>
css_INITIAL     == <<"I","N","I","T","I","A","L">>
css_initial     == <<"i","n","i","t","i","a","l">>
css_inherit     == <<"i","n","h","e","r","i","t">>
css_trans_tab   == <<"\t","t","r","a","n","s","p","a","r","e","n","t","\n">>
css_none_word   == <<"n","o","n","e">>

-----------------------------------------------------------------------------
(* BackgroundPresenceDetector                                              *)

\* the values _has_background_styles does not count as a background
NoBackgroundValues == {css_empty, css_transparent, css_inherit, css_initial}

\* the test of line 211 without lower(): a capitalised keyword counts
IsBackgroundPair_NoLower(p) ==
    /\ p[1] = "background-color"
    /\ StrStrip(p[2]) \notin NoBackgroundValues

\* the test of one (prop, value) pair, line 211
IsBackgroundPair(p) ==
    /\ p[1] = "background-color"
    /\ StrLower(StrStrip(p[2])) \notin NoBackgroundValues

\* _has_background_styles(styles): styles maps positions to lists of pairs
_has_background_styles(styles) ==
    \E pos \in DOMAIN styles :
        \E k \in DOMAIN styles[pos] : IsBackgroundPair(styles[pos][k])

-----------------------------------------------------------------------------
(* LayoutPlanner                                                           *)

CompactPreset ==
    [box |-> "ROUNDED", padding |-> <<0, 0>>, collapse_padding |-> TRUE,
     show_edge |-> TRUE, pad_edge |-> FALSE, expand |-> FALSE]

SpaciousPreset ==
    [box |-> "ROUNDED", padding |-> <<0, 1>>, collapse_padding |-> FALSE,
     show_edge |-> TRUE, pad_edge |-> TRUE, expand |-> FALSE]

\* the choice of line 233 with "and" in place of "or"
_optimize_table_for_backgrounds_and(has_backgrounds, minimize_gaps) ==
    IF has_backgrounds /\ minimize_gaps THEN CompactPreset ELSE SpaciousPreset

_optimize_table_for_backgrounds(has_backgrounds, minimize_gaps) ==
    IF has_backgrounds \/ minimize_gaps THEN CompactPreset ELSE SpaciousPreset

\* {**b, **a}: the merge with the earlier dict winning
DictMerge_FirstWins(a, b) ==
    [k \in (DOMAIN a) \cup (DOMAIN b) |-> IF k \in DOMAIN a THEN a[k] ELSE b[k]]

\* {**a, **b}: the keys of both, b's value where both have the key
DictMerge(a, b) ==
    [k \in (DOMAIN a) \cup (DOMAIN b) |-> IF k \in DOMAIN b THEN b[k] ELSE a[k]]

EmptyDict == [k \in {} |-> None]

-----------------------------------------------------------------------------
(* The tabular source: a pandas DataFrame or Series.                       *)
(* A value carries its Python type, its number (for ordering) and str(v).  *)

IntV(n, s) == [t |-> "int", n |-> n, s |-> s]
StrV(s)    == [t |-> "str", n |-> 0, s |-> s]

FlatIndex(name, labels) ==
    [multi |-> FALSE, names |-> <<name>>,
     labels |-> [i \in DOMAIN labels |-> <<labels[i]>>]]

\* {"Sales": [150, 230], "Profit": [25, 45]}, default RangeIndex
DF_SALES ==
    [kind |-> "DataFrame", name |-> None,
     columns |-> <<"Sales", "Profit">>,
     data |-> << <<IntV(150, "150"), IntV(25, "25")>>,
                 <<IntV(230, "230"), IntV(45, "45")>> >>,
     index |-> FlatIndex(None, <<Some("0"), Some("1")>>)]

\* three rows, one numeric and one text column, a two-level index whose
\* second level is unnamed and holds a missing label
DF_MULTI ==
    [kind |-> "DataFrame", name |-> None,
     columns |-> <<"qty", "tag">>,
     data |-> << <<IntV(7, "7"), StrV("x")>>,
                 <<IntV(123456789, "123456789"), StrV("yy")>>,
                 <<IntV(30, "30"), StrV("z")>> >>,
     index |-> [multi |-> TRUE, names |-> <<Some(StrV("first")), None>>,
                labels |-> << <<Some("bar"), Some("one")>>,
                              <<Some("bar"), Some("two")>>,
                              <<Some("baz"), None>> >>]]

\* pd.Series([3, 1, 2], index=["a", "b", "c"]) with no name
SER_PLAIN ==
    [kind |-> "Series", name |-> None,
     columns |-> <<>>,
     data |-> << <<IntV(3, "3")>>, <<IntV(1, "1")>>, <<IntV(2, "2")>> >>,
     index |-> FlatIndex(Some(StrV("id")), <<Some("a"), Some("b"), Some("c")>>)]

Sources == {DF_SALES, DF_MULTI, SER_PLAIN}

NRows(o) == Len(o.data)

\* the columns of the frame a Styler is built on (a Series is styled
\* through Series.to_frame(), one column)
NCols(o) == IF o.kind = "Series" THEN 1 ELSE Len(o.columns)

\* 0-based (row, column) positions, the keys of Styler.ctx
Positions(o) == {<<i, j>> : i \in 0 .. NRows(o) - 1, j \in 0 .. NCols(o) - 1}

Cell(o, pos) == o.data[pos[1] + 1][pos[2] + 1]

ColumnValues(o, j) == [i \in 1 .. NRows(o) |-> o.data[i][j + 1]]

IsNumericColumn(o, j) == \A i \in 1 .. NRows(o) : o.data[i][j + 1].t = "int"

ColMin(o, j) ==
    CHOOSE m \in {o.data[i][j + 1].n : i \in 1 .. NRows(o)} :
        \A i \in 1 .. NRows(o) : m <= o.data[i][j + 1].n

ColMax(o, j) ==
    CHOOSE m \in {o.data[i][j + 1].n : i \in 1 .. NRows(o)} :
        \A i \in 1 .. NRows(o) : m >= o.data[i][j + 1].n

-----------------------------------------------------------------------------
(* Colormaps (matplotlib): a colormap is a lookup table; a sample at x in  *)
(* [0, 1] reads entry floor(x * N), the last entry for x = 1.              *)

hex_440154 == <<"#","4","4","0","1","5","4">>
hex_31688e == <<"#","3","1","6","8","8","e">>
hex_35b779 == <<"#","3","5","b","7","7","9">>
hex_fde725 == <<"#","f","d","e","7","2","5">>
hex_0d0887 == <<"#","0","d","0","8","8","7">>
hex_9c179e == <<"#","9","c","1","7","9","e">>
hex_ed7953 == <<"#","e","d","7","9","5","3">>
hex_f0f921 == <<"#","f","0","f","9","2","1">>
hex_fff7fb == <<"#","f","f","f","7","f","b">>
hex_a6bddb == <<"#","a","6","b","d","d","b">>
hex_3690c0 == <<"#","3","6","9","0","c","0">>
hex_023858 == <<"#","0","2","3","8","5","8">>
hex_f1f1f1 == <<"#","f","1","f","1","f","1">>
hex_000000 == <<"#","0","0","0","0","0","0">>

Colormaps ==
    [viridis |-> <<hex_440154, hex_31688e, hex_35b779, hex_fde725>>,
     plasma  |-> <<hex_0d0887, hex_9c179e, hex_ed7953, hex_f0f921>>,
     PuBu    |-> <<hex_fff7fb, hex_a6bddb, hex_3690c0, hex_023858>>]

\* the table entries against which pandas writes dark text
LightColors == {hex_fde725, hex_ed7953, hex_f0f921, hex_fff7fb, hex_a6bddb}

IsColormap(name) == name \in DOMAIN Colormaps

\* cmap(num / den)
CmapSample(name, num, den) ==
    LET lut == Colormaps[name]
        k   == (num * Len(lut)) \div den
    IN  lut[(IF k >= Len(lut) THEN Len(lut) - 1 ELSE k) + 1]

-----------------------------------------------------------------------------
(* The pandas Styler, as far as to_rich uses it.  A Styler holds the list  *)
(* _todo of pending style operations and the map _display_funcs of         *)
(* formatting functions.  background_gradient, text_gradient and format    *)
(* change the Styler they are called on and return it; the styles are      *)
(* computed by _compute(), which clears ctx and runs _todo in order.       *)

\* a style function the caller applied: css on every cell or on each
\* column's maximum; raises: the function raises when it is run
UserOp(where, css, raises) ==
    [kind |-> "apply", where |-> where, css |-> css, raises |-> raises,
     cmap |-> ""]

GradientOp(kind, cmap) ==
    [kind |-> kind, where |-> "numeric", css |-> <<>>, raises |-> FALSE,
     cmap |-> cmap]

\* Styler(data): nothing pending, default display
NewStyler == [todo |-> <<>>, display |-> EmptyDict]

\* does running op raise?  A gradient looks its colormap up when it runs.
OpRaises(op) ==
    \/ op.raises
    \/ op.kind \in {"background_gradient", "text_gradient"}
       /\ ~IsColormap(op.cmap)

\* the cells op styles
OpCells(o, op) ==
    CASE op.where = "all" -> Positions(o)
      [] op.where = "max" ->
            {pos \in Positions(o) :
                /\ IsNumericColumn(o, pos[2])
                /\ Cell(o, pos).n = ColMax(o, pos[2])}
      [] OTHER -> {pos \in Positions(o) : IsNumericColumn(o, pos[2])}

\* the colormap sample of a cell: its value normalised over its column
GradientColor(o, op, pos) ==
    LET lo == ColMin(o, pos[2])
        hi == ColMax(o, pos[2])
    IN  IF hi = lo THEN CmapSample(op.cmap, 0, 1)
        ELSE CmapSample(op.cmap, Cell(o, pos).n - lo, hi - lo)

\* the (property, value) pairs op adds to a cell
OpCss(o, op, pos) ==
    CASE op.kind = "apply" -> op.css
      [] op.kind = "background_gradient" ->
            LET c == GradientColor(o, op, pos)
            IN  << <<"background-color", c>>,
                   <<"color", IF c \in LightColors THEN hex_000000
                              ELSE hex_f1f1f1>> >>
      [] op.kind = "text_gradient" ->
            << <<"color", GradientColor(o, op, pos)>> >>

\* Styler._update_ctx: ctx[(i, j)].extend(css) for every styled cell
UpdateCtx(o, ctx, op) ==
    LET css   == [pos \in OpCells(o, op) |-> OpCss(o, op, pos)]
        cells == {pos \in DOMAIN css : css[pos] # <<>>}
    IN  [pos \in (DOMAIN ctx) \cup cells |->
            (IF pos \in DOMAIN ctx THEN ctx[pos] ELSE <<>>)
            \o (IF pos \in cells THEN css[pos] ELSE <<>>)]

\* Styler._compute(): [ok, ctx]; not ok when an operation raises
RECURSIVE RunTodo(_, _, _)
RunTodo(o, todo, ctx) ==
    IF todo = <<>> THEN [ok |-> TRUE, ctx |-> ctx]
    ELSE IF OpRaises(Head(todo)) THEN [ok |-> FALSE, ctx |-> ctx]
    ELSE RunTodo(o, Tail(todo), UpdateCtx(o, ctx, Head(todo)))

StylerCompute(o, st) == RunTodo(o, st.todo, EmptyDict)

\* Styler.background_gradient / Styler.text_gradient: queue the operation
StylerGradient(st, kind, cmap) ==
    [st EXCEPT !.todo = Append(@, GradientOp(kind, cmap))]

\* A formatter is a str format specification, or something pandas cannot
\* use as a formatter (neither str nor callable nor None).
FmtSpec(spec) == [t |-> "str", spec |-> spec]
FmtUnusable   == [t |-> "int", spec |-> ""]
FmtNone       == [t |-> "none", spec |-> ""]
FmtDict(m)    == [t |-> "dict", map |-> m]

\* the formatter of column j: a non-dict formatter applies to every column,
\* a dict to its keys (the column labels), other columns get the default
ColumnFormatter(o, formatter, j) ==
    IF formatter.t = "none" THEN None
    ELSE IF formatter.t # "dict" THEN Some(formatter)
    ELSE LET label == IF o.kind = "Series" THEN "0" ELSE o.columns[j + 1]
         IN  IF label \in DOMAIN formatter.map
             THEN Some(formatter.map[label]) ELSE None

\* Styler.format(formatter, na_rep=na_rep): raises TypeError for a
\* formatter it cannot wrap, else sets the display function of every cell
StylerFormatRaises(o, formatter) ==
    \E j \in 0 .. NCols(o) - 1 :
        LET f == ColumnFormatter(o, formatter, j)
        IN  f # None /\ Val(f).t # "str"

StylerFormat(o, st, formatter, na_rep) ==
    [st EXCEPT !.display =
        DictMerge(@, [pos \in Positions(o) |->
            [fmt |-> ColumnFormatter(o, formatter, pos[2]),
             na_rep |-> na_rep]])]

\* the display function of a cell applied to its value: [ok, text]
\* "{:.1f}" formats a number with one decimal and raises ValueError on a
\* str; "{}" is str(); without a formatter the default one shows the value
DisplayFunc(f, v) ==
    IF f.fmt = None THEN [ok |-> TRUE, text |-> v.s]
    ELSE CASE Val(f.fmt).spec = "{:.1f}" ->
                IF v.t = "int" THEN [ok |-> TRUE, text |-> v.s \o ".0"]
                ELSE [ok |-> FALSE, text |-> ""]
           [] Val(f.fmt).spec = "<{}>" ->
                [ok |-> TRUE, text |-> "<" \o v.s \o ">"]
           [] OTHER -> [ok |-> FALSE, text |-> ""]

-----------------------------------------------------------------------------
(* ColorResolver: _parse_css_color                                         *)

Digits == <<"0","1","2","3","4","5","6","7","8","9">>
HexDigits == <<"0","1","2","3","4","5","6","7","8","9",
               "a","b","c","d","e","f">>

IsDigit(c) == \E i \in DOMAIN Digits : Digits[i] = c
DigitVal(c) == (CHOOSE i \in DOMAIN Digits : Digits[i] = c) - 1

\* the first index >= i of s whose character is not in the class (Len + 1
\* when every remaining character is): the end of a greedy class* match
RECURSIVE SkipDigits(_, _)
SkipDigits(s, i) ==
    IF i <= Len(s) /\ IsDigit(s[i]) THEN SkipDigits(s, i + 1) ELSE i

RECURSIVE SkipSpace(_, _)
SkipSpace(s, i) ==
    IF i <= Len(s) /\ s[i] \in Whitespace THEN SkipSpace(s, i + 1) ELSE i

RECURSIVE SkipDigitsDots(_, _)
SkipDigitsDots(s, i) ==
    IF i <= Len(s) /\ (IsDigit(s[i]) \/ s[i] = ".")
    THEN SkipDigitsDots(s, i + 1) ELSE i

\* the literal lit at index i of s: the index after it, or 0
MatchLit(s, i, lit) ==
    IF i >= 1 /\ i + Len(lit) - 1 <= Len(s)
       /\ SubSeq(s, i, i + Len(lit) - 1) = lit
    THEN i + Len(lit) ELSE 0

\* (\d+) at index i: the index after it, or 0
MatchNumber(s, i) ==
    IF i < 1 THEN 0
    ELSE Local(SkipDigits(s, i), LAMBDA end : IF end > i THEN end ELSE 0)

\* ,\s* at index i: the index after it, or 0
MatchComma(s, i) ==
    Local(MatchLit(s, i, <<",">>), LAMBDA end :
        IF end = 0 THEN 0 ELSE SkipSpace(s, end))

\* the three channels (\d+),\s*(\d+),\s*(\d+) from index i:
\* [ok, r, g, b, next], each channel its text
MatchChannels(s, i) ==
    Local(MatchNumber(s, i), LAMBDA r1 :
    Local(IF r1 = 0 THEN 0 ELSE MatchComma(s, r1), LAMBDA g0 :
    Local(IF g0 = 0 THEN 0 ELSE MatchNumber(s, g0), LAMBDA g1 :
    Local(IF g1 = 0 THEN 0 ELSE MatchComma(s, g1), LAMBDA b0 :
    Local(IF b0 = 0 THEN 0 ELSE MatchNumber(s, b0), LAMBDA b1 :
        IF b1 = 0 THEN [ok |-> FALSE, r |-> <<>>, g |-> <<>>, b |-> <<>>,
                        next |-> 0]
        ELSE [ok |-> TRUE, r |-> SubSeq(s, i, r1 - 1),
              g |-> SubSeq(s, g0, g1 - 1), b |-> SubSeq(s, b0, b1 - 1),
              next |-> b1])))))

\* the channels after the literal prefix, when s starts with it
MatchPrefixed(s, prefix) ==
    Local(MatchLit(s, 1, prefix), LAMBDA p :
        IF p = 0 THEN [ok |-> FALSE, r |-> <<>>, g |-> <<>>, b |-> <<>>,
                       next |-> 0]
        ELSE MatchChannels(s, p))

\* re.match(r"rgb\((\d+),\s*(\d+),\s*(\d+)\)", s): a match at the start
RgbMatch(s) ==
    Local(MatchPrefixed(s, <<"r","g","b","(">>), LAMBDA c :
        c.ok /\ MatchLit(s, c.next, <<")">>) # 0)

\* re.match(r"rgba\((\d+),\s*(\d+),\s*(\d+),\s*[\d.]+\)", s): the channels
\* with ok telling whether the whole pattern matched
RgbaMatch(s) ==
    Local(MatchPrefixed(s, <<"r","g","b","a","(">>), LAMBDA c :
    Local(IF c.ok THEN MatchComma(s, c.next) ELSE 0, LAMBDA a0 :
    Local(IF a0 = 0 THEN 0 ELSE SkipDigitsDots(s, a0), LAMBDA a1 :
        [c EXCEPT !.ok = a0 # 0 /\ a1 > a0 /\ MatchLit(s, a1, <<")">>) # 0])))

\* int(text) of a digit string
RECURSIVE ParseInt(_)
ParseInt(d) ==
    IF d = <<>> THEN 0
    ELSE 10 * ParseInt(SubSeq(d, 1, Len(d) - 1)) + DigitVal(d[Len(d)])

\* format(n, "x")
RECURSIVE ToHex(_)
ToHex(n) ==
    IF n < 16 THEN <<HexDigits[n + 1]>>
    ELSE ToHex(n \div 16) \o <<HexDigits[(n % 16) + 1]>>

\* f"{n:02x}": zero-padded to two digits, longer when n > 255
Hex02(n) == IF n < 16 THEN <<"0">> \o ToHex(n) ELSE ToHex(n)

_parse_css_color(css_value) ==
    Local(StrStrip(css_value), LAMBDA v :
        IF v # <<>> /\ v[1] = "#" THEN v
        ELSE IF RgbMatch(v) THEN v
        ELSE Local(RgbaMatch(v), LAMBDA m :
            IF m.ok
            THEN <<"#">> \o Hex02(ParseInt(m.r)) \o Hex02(ParseInt(m.g))
                 \o Hex02(ParseInt(m.b))
            ELSE v))

-----------------------------------------------------------------------------
(* Rich Text: the text, its base style and the styles laid over it.        *)

RECURSIVE Spaces(_)
Spaces(n) == IF n <= 0 THEN "" ELSE " " \o Spaces(n - 1)

\* Text(s)
Text(s) == [text |-> TRUE, plain |-> s, style |-> <<>>, spans |-> <<>>]

\* a str put in a table row as it is
PlainCell(s) == [text |-> FALSE, plain |-> s, style |-> <<>>, spans |-> <<>>]

\* Text.pad_right(count)
PadRight(t, count) ==
    IF count > 0 THEN [t EXCEPT !.plain = @ \o Spaces(count)] ELSE t

\* Text.stylize(style): nothing for an empty style or an empty text
Stylize(t, style) ==
    IF style = <<>> \/ Len(t.plain) = 0 THEN t
    ELSE [t EXCEPT !.spans = Append(@, style)]

on_ == <<"o","n"," ">>
bold_ == <<"b","o","l","d">>
italic_ == <<"i","t","a","l","i","c">>
on_grey11 == <<"o","n"," ","g","r","e","y","1","1">>
on_blue == <<"o","n"," ","b","l","u","e">>

\* the loop body of _css_to_rich_text for one (prop, value) pair
ApplyCssPair(t, p) ==
    CASE p[1] = "background-color" -> Stylize(t, on_ \o _parse_css_color(p[2]))
      [] p[1] = "color" -> Stylize(t, _parse_css_color(p[2]))
      [] p[1] = "font-weight" /\ p[2] = bold_ -> Stylize(t, bold_)
      [] p[1] = "font-style" /\ p[2] = italic_ -> Stylize(t, italic_)
      [] OTHER -> t

RECURSIVE ApplyCss(_, _)
ApplyCss(t, css) ==
    IF css = <<>> THEN t ELSE ApplyCss(ApplyCssPair(t, Head(css)), Tail(css))

\* column_width is None or <<width>>
_css_to_rich_text(css_styles, text, column_width) ==
    LET padded ==
            IF column_width # None /\ Len(text) < Val(column_width)
            THEN PadRight(Text(text), Val(column_width) - Len(text))
            ELSE Text(text)
    IN  ApplyCss(padded, css_styles)

\* format_funcs maps positions to display functions; value a cell value
_apply_styler_formatting(value, row_idx, col_idx, format_funcs) ==
    IF <<row_idx, col_idx>> \in DOMAIN format_funcs
    THEN LET shown == DisplayFunc(format_funcs[<<row_idx, col_idx>>], value)
         IN  IF shown.ok THEN shown.text ELSE value.s
    ELSE value.s

\* [ok, styles]: Styler._compute() may raise
_extract_styler_styles(o, st) == StylerCompute(o, st)

_extract_styler_formats(st) == st.display

-----------------------------------------------------------------------------
(* IndexFormatter                                                          *)

RECURSIVE Join(_, _)
Join(parts, sep) ==
    IF parts = <<>> THEN ""
    ELSE IF Len(parts) = 1 THEN parts[1]
    ELSE parts[1] \o sep \o Join(Tail(parts), sep)

\* value is None (missing) or <<str(value)>>
_format_index_value(value) == IF value = None THEN "" ELSE Val(value)

_format_multiindex_value(values) ==
    Join([k \in DOMAIN values |-> _format_index_value(values[k])], " | ")

\* not name: an index name is None or <<value>>; None, "" and 0 are falsy
Falsy(name) ==
    \/ name = None
    \/ Val(name).t = "str" /\ Val(name).s = ""
    \/ Val(name).t = "int" /\ Val(name).n = 0

\* [name or f"Level_{i}" for i, name in enumerate(index.names)]
LevelNames(index) ==
    [k \in DOMAIN index.names |->
        IF Falsy(index.names[k]) THEN StrV("Level_" \o Digits[k])
        ELSE Val(index.names[k])]

\* [raised, value]: value is the returned object; " | ".join raises
\* TypeError on an item that is not a str.  index.names of a pandas Index
\* is never empty, so the outer else branch is not taken.
_get_index_header_name(index) ==
    IF index.multi
    THEN Local(LevelNames(index), LAMBDA names :
            IF \E k \in DOMAIN names : names[k].t # "str"
            THEN [raised |-> "TypeError", value |-> None]
            ELSE [raised |-> "none",
                  value |-> Some(StrV(Join([k \in DOMAIN names |-> names[k].s],
                                           " | ")))])
    ELSE [raised |-> "none",
          value |-> Some(IF Falsy(index.names[1]) THEN StrV("Index")
                         ELSE Val(index.names[1]))]

\* the header string of an index whose names are str or None, as the
\* sources of to_rich and _measure_column_widths are
IndexHeader(index) == Val(_get_index_header_name(index).value).s

\* the display string of the index label of row i (1-based)
IndexValue(o, i) ==
    IF o.index.multi THEN _format_multiindex_value(o.index.labels[i])
    ELSE _format_index_value(o.index.labels[i][1])

IndexValues(o) == [i \in 1 .. NRows(o) |-> IndexValue(o, i)]

-----------------------------------------------------------------------------
(* ColumnWidthMeasurer                                                     *)

MaxLen(strs) == MaxOf([k \in DOMAIN strs |-> Len(strs[k])])

\* [str(val) for val in df[col]]: df[col] is the column when the label col
\* occurs once; when it occurs several times df[col] is the DataFrame of
\* those columns, and iterating a DataFrame yields its column labels
ColValues(o, col) ==
    LET at == {k \in DOMAIN o.columns : o.columns[k] = col}
    IN  IF Cardinality(at) = 1
        THEN [i \in 1 .. NRows(o) |-> o.data[i][CHOOSE k \in at : TRUE].s]
        ELSE [q \in 1 .. Cardinality(at) |-> col]

\* widths[col] = ... for the columns from the k-th on, in order
RECURSIVE MeasureColumns(_, _, _)
MeasureColumns(o, k, widths) ==
    IF k > Len(o.columns) THEN widths
    ELSE MeasureColumns(o, k + 1,
            DictMerge(widths,
                (o.columns[k] :>
                    Max2(Len(o.columns[k]),
                         MaxLen(ColValues(o, o.columns[k]))))))

_measure_column_widths(df, show_index) ==
    LET index_part ==
            IF show_index
            THEN ("__index__" :>
                    Max2(Len(IndexHeader(df.index)),
                         MaxLen(IndexValues(df))))
            ELSE EmptyDict
        series_name == IF df.name = None THEN "Value" ELSE Val(df.name)
    IN  IF df.kind = "DataFrame" THEN MeasureColumns(df, 1, index_part)
        ELSE DictMerge(index_part,
                ("__value__" :>
                    Max2(Len(series_name),
                         MaxLen([i \in 1 .. NRows(df) |-> df.data[i][1].s]))))

\* dict.get(key, None)
DictGet(d, key) == IF key \in DOMAIN d THEN Some(d[key]) ELSE None

-----------------------------------------------------------------------------
(* Gradient palette of the index column                                    *)

\* the palette without the except branch: nothing for an unknown colormap
_create_index_gradient_styles_norecover(index_values, colormap) ==
    LET n_values == Len(index_values)
        name == IF colormap = "gradient" THEN "viridis" ELSE colormap
    IN  IF n_values = 0 \/ ~IsColormap(name) THEN <<>>
        ELSE IF n_values = 1 THEN <<on_ \o CmapSample(name, 1, 2)>>
        ELSE [i \in 1 .. n_values |->
                on_ \o CmapSample(name, i - 1, n_values - 1)]

\* n style strings; "" for each when the colormap lookup raises
_create_index_gradient_styles(index_values, colormap) ==
    LET n_values == Len(index_values)
        name == IF colormap = "gradient" THEN "viridis" ELSE colormap
    IN  IF n_values = 0 THEN <<>>
        ELSE IF ~IsColormap(name) THEN [i \in 1 .. n_values |-> <<>>]
        ELSE IF n_values = 1 THEN <<on_ \o CmapSample(name, 1, 2)>>
        ELSE [i \in 1 .. n_values |->
                on_ \o CmapSample(name, i - 1, n_values - 1)]

-----------------------------------------------------------------------------
(* TableAssembler: UtilsAccessor.to_rich                                   *)

\* a keyword dictionary pandas rejects (an unexpected keyword argument)
BadKwargs == Some("unexpected")

\* the keyword arguments at their defaults (styler: the caller passes its
\* Styler object)
DefaultArgs ==
    [styler |-> FALSE, minimize_gaps |-> FALSE, show_index |-> TRUE,
     bg |-> None, bg_kwargs |-> None, tg |-> None, tg_kwargs |-> None,
     column_header_style |-> None, index_bg |-> None,
     alternating_rows |-> FALSE,
     alternating_row_colors |-> <<<<>>, on_grey11>>,
     table_style |-> None, auto_optimize |-> TRUE,
     box |-> None, padding |-> None, collapse_padding |-> None,
     show_edge |-> None, pad_edge |-> None, expand |-> None,
     format |-> None, na_rep |-> None, table_kwargs |-> EmptyDict]

\* the condition of line 858
WantsStyler(a) ==
    \/ a.bg # None \/ a.tg # None \/ a.index_bg # None
    \/ a.alternating_rows
    \/ a.format # None \/ a.na_rep # None
    \/ a.column_header_style # None

\* lines 876-886: st a Styler, w the warnings so far
ApplyBg(a, x) ==
    IF a.bg = None THEN x
    ELSE IF a.bg_kwargs # None
    THEN [x EXCEPT !.warnings = @ \cup {"Colormap error in to_rich"}]
    ELSE [x EXCEPT !.st = StylerGradient(@, "background_gradient",
                            IF Val(a.bg) = "gradient" THEN "PuBu"
                            ELSE Val(a.bg))]

\* lines 888-900
ApplyTg(a, x) ==
    IF a.tg = None THEN x
    ELSE IF a.tg_kwargs # None
    THEN [x EXCEPT !.warnings = @ \cup {"Colormap error in to_rich (text)"}]
    ELSE [x EXCEPT !.st = StylerGradient(@, "text_gradient",
                            IF Val(a.tg) = "gradient" THEN "PuBu"
                            ELSE Val(a.tg))]

\* lines 902-921: Styler.format is called outside any try
ApplyFormat(o, a, x) ==
    LET na == IF a.na_rep # None THEN a.na_rep ELSE Some("")
    IN  IF a.format # None
        THEN IF Val(a.format).t \in {"str", "dict"}
             THEN IF StylerFormatRaises(o, Val(a.format))
                  THEN [x EXCEPT !.raised = "TypeError"]
                  ELSE [x EXCEPT !.st = StylerFormat(o, @, Val(a.format), na)]
             ELSE [x EXCEPT !.warnings =
                        @ \cup {"format parameter must be string or dict"}]
        ELSE IF a.na_rep # None
        THEN [x EXCEPT !.st = StylerFormat(o, @, FmtNone, na)]
        ELSE x

\* lines 857-926: [st, warnings, raised], st None or <<Styler>>
PrepareStyler(o, passed, a) ==
    LET x0 == [st |-> IF passed = None THEN NewStyler ELSE Val(passed),
               warnings |-> {}, raised |-> "none"]
        x3 == ApplyFormat(o, a, ApplyTg(a, ApplyBg(a, x0)))
    IN  IF WantsStyler(a)
        THEN [st |-> Some(x3.st), warnings |-> x3.warnings,
              raised |-> x3.raised]
        ELSE [st |-> passed, warnings |-> {}, raised |-> "none"]

\* lines 927-939: [styles, format_funcs, warnings]
ExtractStyler(o, st) ==
    IF st = None
    THEN [styles |-> EmptyDict, format_funcs |-> EmptyDict, warnings |-> {}]
    ELSE LET computed == _extract_styler_styles(o, Val(st))
         IN  IF computed.ok
             THEN [styles |-> computed.ctx,
                   format_funcs |-> _extract_styler_formats(Val(st)),
                   warnings |-> {}]
             ELSE [styles |-> EmptyDict, format_funcs |-> EmptyDict,
                   warnings |-> {"Styler extraction error in to_rich"}]

\* lines 943-950 with minimize_gaps not handed to the preset choice
DetectBackgrounds_NoMinimize(a, styles) ==
    IF a.auto_optimize
    THEN LET has_backgrounds == _has_background_styles(styles)
         IN  [has_backgrounds |-> has_backgrounds,
              optimized_settings |->
                  _optimize_table_for_backgrounds(has_backgrounds, FALSE)]
    ELSE [has_backgrounds |-> FALSE, optimized_settings |-> EmptyDict]

\* lines 943-950: [has_backgrounds, optimized_settings]
DetectBackgrounds(a, styles) ==
    IF a.auto_optimize
    THEN LET has_backgrounds == _has_background_styles(styles)
         IN  [has_backgrounds |-> has_backgrounds,
              optimized_settings |->
                  _optimize_table_for_backgrounds(has_backgrounds,
                                                  a.minimize_gaps)]
    ELSE [has_backgrounds |-> FALSE, optimized_settings |-> EmptyDict]

LayoutFields ==
    {"box", "padding", "collapse_padding", "show_edge", "pad_edge", "expand"}

\* lines 953-965: the layout arguments that are not None
ManualOverrides(a) ==
    [f \in {g \in LayoutFields : a[g] # None} |-> Val(a[f])]

\* lines 974-978
FinalTableKwargs(a, optimized_settings) ==
    LET merged == DictMerge(DictMerge(optimized_settings, ManualOverrides(a)),
                            a.table_kwargs)
    IN  IF a.table_style # None
        THEN DictMerge(merged, ("style" :> Val(a.table_style)))
        ELSE merged

\* lines 986-998 and 1083-1095
IndexGradientStyles(o, a) ==
    IF a.index_bg # None /\ a.show_index
    THEN _create_index_gradient_styles(IndexValues(o), Val(a.index_bg))
    ELSE <<>>

\* the column definitions with min_width never set
TableColumns_NoMinWidth(o, a, has_backgrounds) ==
    LET index_col ==
            IF a.show_index
            THEN << [header |-> IndexHeader(o.index),
                     kind |-> "index", min_width |-> None,
                     header_style |-> Some("bold dim")] >>
            ELSE <<>>
        headers ==
            IF o.kind = "DataFrame" THEN o.columns
            ELSE << IF o.name = None THEN "Value" ELSE Val(o.name) >>
    IN  index_col \o
        [k \in DOMAIN headers |->
            [header |-> headers[k], kind |-> "data",
             min_width |-> None,
             header_style |-> a.column_header_style]]

\* lines 1001-1020 and 1098-1116: the column definitions
TableColumns(o, a, has_backgrounds) ==
    LET index_col ==
            IF a.show_index
            THEN << [header |-> IndexHeader(o.index),
                     kind |-> "index", min_width |-> None,
                     header_style |-> Some("bold dim")] >>
            ELSE <<>>
        headers ==
            IF o.kind = "DataFrame" THEN o.columns
            ELSE << IF o.name = None THEN "Value" ELSE Val(o.name) >>
    IN  index_col \o
        [k \in DOMAIN headers |->
            [header |-> headers[k], kind |-> "data",
             min_width |-> IF has_backgrounds THEN Some(8) ELSE None,
             header_style |-> a.column_header_style]]

\* lines 1027-1049 and 1122-1144: the index cell of row i (0-based)
IndexCell(o, a, i, has_backgrounds, column_widths, index_gradient_styles) ==
    LET index_value == IndexValue(o, i + 1)
        index_bg_style ==
            IF i < Len(index_gradient_styles)
            THEN index_gradient_styles[i + 1] ELSE <<>>
        index_width == DictGet(column_widths, "__index__")
        padded ==
            IF index_width # None /\ Val(index_width) # 0
               /\ Len(index_value) < Val(index_width)
            THEN PadRight(Text(index_value),
                          Val(index_width) - Len(index_value))
            ELSE Text(index_value)
    IN  IF has_backgrounds \/ index_bg_style # <<>>
        THEN [padded EXCEPT !.style = index_bg_style]
        ELSE PlainCell(index_value)

\* lines 1052-1076: a data cell of a DataFrame row
FrameCell(o, a, i, j, styles, format_funcs, has_backgrounds, column_widths) ==
    LET cell_styles == IF <<i, j>> \in DOMAIN styles THEN styles[<<i, j>>]
                       ELSE <<>>
        column_width ==
            IF has_backgrounds THEN DictGet(column_widths, o.columns[j + 1])
            ELSE None
        alt_style == a.alternating_row_colors[(i % 2) + 1]
    IN  Local(_apply_styler_formatting(Cell(o, <<i, j>>), i, j, format_funcs),
              LAMBDA formatted_value :
        Local(_css_to_rich_text(cell_styles, formatted_value, column_width),
              LAMBDA styled_text :
                  IF a.alternating_rows /\ alt_style # <<>>
                  THEN [styled_text EXCEPT !.style = alt_style]
                  ELSE styled_text))

\* lines 1146-1159: the value cell of a Series row
SeriesCell(o, a, i, styles, format_funcs, has_backgrounds, column_widths) ==
    LET cell_styles == IF <<i, 0>> \in DOMAIN styles THEN styles[<<i, 0>>]
                       ELSE <<>>
        column_width ==
            IF has_backgrounds THEN DictGet(column_widths, "__value__")
            ELSE None
    IN  Local(_apply_styler_formatting(Cell(o, <<i, 0>>), i, 0, format_funcs),
              LAMBDA formatted_value :
                  _css_to_rich_text(cell_styles, formatted_value,
                                    column_width))

\* the rows added from the last source row to the first
TableRows_reversed(o, a, styles, format_funcs, has_backgrounds, column_widths) ==
    Local(IndexGradientStyles(o, a), LAMBDA index_gradient_styles :
        [q \in 1 .. NRows(o) |->
            Local(NRows(o) + 1 - q, LAMBDA r :
            (IF a.show_index
             THEN <<IndexCell(o, a, r - 1, has_backgrounds, column_widths,
                              index_gradient_styles)>>
             ELSE <<>>)
            \o
            (IF o.kind = "DataFrame"
             THEN [c \in 1 .. Len(o.columns) |->
                     FrameCell(o, a, r - 1, c - 1, styles, format_funcs,
                               has_backgrounds, column_widths)]
             ELSE <<SeriesCell(o, a, r - 1, styles, format_funcs,
                               has_backgrounds, column_widths)>>))])

\* lines 1023-1078 and 1118-1161: the rows, in source order
TableRows(o, a, styles, format_funcs, has_backgrounds, column_widths) ==
    Local(IndexGradientStyles(o, a), LAMBDA index_gradient_styles :
        [r \in 1 .. NRows(o) |->
            (IF a.show_index
             THEN <<IndexCell(o, a, r - 1, has_backgrounds, column_widths,
                              index_gradient_styles)>>
             ELSE <<>>)
            \o
            (IF o.kind = "DataFrame"
             THEN [c \in 1 .. Len(o.columns) |->
                     FrameCell(o, a, r - 1, c - 1, styles, format_funcs,
                               has_backgrounds, column_widths)]
             ELSE <<SeriesCell(o, a, r - 1, styles, format_funcs,
                               has_backgrounds, column_widths)>>)])

\* to_rich with the keywords a on the accessor of o, the caller's Styler being caller
\* (None or <<Styler>>): what it returns or raises, what it leaves in the
\* caller's Styler, and its locals
to_rich(o, caller, a) ==
    Local(PrepareStyler(o, IF a.styler THEN caller ELSE None, a),
          LAMBDA prep :
    LET after == IF a.styler THEN prep.st ELSE caller
    IN  IF prep.raised # "none"
        THEN [raised |-> prep.raised, table |-> None, styler |-> after,
              locals |-> [styles |-> EmptyDict, format_funcs |-> EmptyDict,
                          has_backgrounds |-> FALSE,
                          optimized_settings |-> EmptyDict,
                          warnings |-> prep.warnings]]
        ELSE
    Local(ExtractStyler(o, prep.st), LAMBDA ext :
    Local(DetectBackgrounds(a, ext.styles), LAMBDA det :
    Local(IF det.has_backgrounds
          THEN _measure_column_widths(o, a.show_index) ELSE EmptyDict,
          LAMBDA column_widths :
    LET table ==
            [kwargs  |-> FinalTableKwargs(a, det.optimized_settings),
             columns |-> TableColumns(o, a, det.has_backgrounds),
             rows    |-> TableRows(o, a, ext.styles, ext.format_funcs,
                                   det.has_backgrounds, column_widths)]
    IN  [raised |-> "none", table |-> Some(table), styler |-> after,
         locals |-> [styles |-> ext.styles,
                     format_funcs |-> ext.format_funcs,
                     has_backgrounds |-> det.has_backgrounds,
                     optimized_settings |-> det.optimized_settings,
                     warnings |-> prep.warnings \cup ext.warnings]]))))

-----------------------------------------------------------------------------
(* The caller: its Styler objects and the arguments of its calls.          *)

css_bg(v) == <<"background-color", v>>

\* the Styler objects a caller may hold for the object o
CallerStylers(o) ==
    { None,
      \* o.style
      Some(NewStyler),
      \* a red background on every cell
      Some([NewStyler EXCEPT !.todo = <<UserOp("all", <<css_bg(css_red)>>,
                                               FALSE)>>]),
      \* a coloured maximum per column, displayed through "{:.1f}"
      Some(StylerFormat(o,
             [NewStyler EXCEPT !.todo =
                <<UserOp("max", <<css_bg(css_RED), <<"color", css_red>>>>,
                         FALSE)>>],
             FmtSpec("{:.1f}"), None)),
      \* bold cells whose background is declared transparent
      Some([NewStyler EXCEPT !.todo =
                <<UserOp("all", <<css_bg(css_Transparent),
                                  <<"font-weight", bold_>>>>, FALSE)>>]),
      \* a style function that raises when the styles are computed
      Some([NewStyler EXCEPT !.todo = <<UserOp("all", <<>>, TRUE)>>]) }

\* a format dictionary by column label
FormatDictUsable ==
    FmtDict(("Sales" :> FmtSpec("<{}>")) @@ ("qty" :> FmtSpec("{:.1f}"))
            @@ ("tag" :> FmtSpec("{:.1f}")) @@ ("0" :> FmtSpec("<{}>"))
            @@ ("absent" :> FmtSpec("<{}>")))

\* a format dictionary holding a number where a formatter is expected
FormatDictUnusable ==
    FmtDict(("Sales" :> FmtUnusable) @@ ("qty" :> FmtUnusable)
            @@ ("0" :> FmtUnusable))

ColormapArgs == {None, Some("viridis"), Some("no_such_colormap")}

\* the (format, na_rep) arguments
FormatArgs ==
    { <<None, None>>, <<None, Some("-")>>,
      <<Some(FmtSpec("{:.1f}")), None>>,
      <<Some(FormatDictUsable), Some("-")>>,
      <<Some(FormatDictUnusable), None>>,
      <<Some(FmtUnusable), None>> }

\* the calls that vary the style sources
StyleArgs ==
    { [DefaultArgs EXCEPT !.styler = st, !.bg = bg, !.tg = tg,
                          !.format = fm[1], !.na_rep = fm[2],
                          !.alternating_rows = alt, !.auto_optimize = ao] :
        st \in BOOLEAN, bg \in ColormapArgs,
        tg \in {None, Some("plasma"), Some("no_such_colormap")},
        fm \in FormatArgs, alt \in BOOLEAN, ao \in BOOLEAN }

\* the calls that vary the index column
IndexArgs ==
    { [DefaultArgs EXCEPT !.styler = st, !.bg = bg, !.index_bg = ib,
                          !.show_index = si, !.alternating_rows = alt,
                          !.auto_optimize = ao] :
        st \in BOOLEAN, bg \in {None, Some("viridis")},
        ib \in {None, Some("gradient"), Some("no_such_colormap")},
        si \in BOOLEAN, alt \in BOOLEAN, ao \in BOOLEAN }

\* one layout field set, or none
OneField(values) ==
    {EmptyDict} \cup {f :> values[f] : f \in DOMAIN values}

ManualValues ==
    [box |-> "SIMPLE", padding |-> <<1, 2>>, collapse_padding |-> FALSE,
     show_edge |-> FALSE, pad_edge |-> TRUE, expand |-> TRUE]

KeywordValues ==
    [box |-> "MINIMAL", padding |-> <<2, 3>>, collapse_padding |-> TRUE,
     show_edge |-> FALSE, pad_edge |-> FALSE, expand |-> TRUE,
     title |-> "Report"]

WithManual(a, m) ==
    [f \in DOMAIN a |-> IF f \in DOMAIN m THEN Some(m[f]) ELSE a[f]]

\* the calls that vary the layout
LayoutArgs ==
    { WithManual([DefaultArgs EXCEPT !.styler = st, !.bg = bg,
                                     !.minimize_gaps = mg,
                                     !.auto_optimize = ao,
                                     !.table_kwargs = kw], m) :
        st \in BOOLEAN, bg \in {None, Some("gradient")},
        mg \in BOOLEAN, ao \in BOOLEAN,
        m \in OneField(ManualValues), kw \in OneField(KeywordValues) }

\* the other arguments, one at a time
OtherArgs ==
    { [DefaultArgs EXCEPT !.bg = Some("viridis"), !.bg_kwargs = BadKwargs],
      [DefaultArgs EXCEPT !.styler = TRUE, !.tg = Some("plasma"),
                          !.tg_kwargs = BadKwargs],
      [DefaultArgs EXCEPT !.column_header_style = Some("bold blue")],
      [DefaultArgs EXCEPT !.table_style = Some("bold"),
                          !.table_kwargs = ("style" :> "dim")],
      [DefaultArgs EXCEPT !.alternating_rows = TRUE,
                          !.alternating_row_colors = <<on_blue, on_grey11>>],
      [DefaultArgs EXCEPT !.styler = TRUE, !.alternating_rows = TRUE,
                          !.alternating_row_colors = <<on_grey11, <<>>>>] }

Args == StyleArgs \cup IndexArgs \cup LayoutArgs \cup OtherArgs

\* how long the caller's Styler may grow before the calls stop
MaxTodo == 3

NoLocals ==
    [styles |-> EmptyDict, format_funcs |-> EmptyDict,
     has_backgrounds |-> FALSE, optimized_settings |-> EmptyDict,
     warnings |-> {}]

Init ==
    /\ obj \in Sources
    /\ styler \in CallerStylers(obj)
    /\ args \in {a \in Args : a.styler <=> styler # None}
    /\ ret = [called |-> FALSE, raised |-> "none", table |-> None]
    /\ locals = NoLocals

\* the caller calls obj.pirr.to_rich with the keywords args
ToRich ==
    \E r \in {to_rich(obj, styler, args)} :
        /\ r.styler # None => Len(Val(r.styler).todo) <= MaxTodo
        /\ styler' = r.styler
        /\ ret' = [called |-> TRUE, raised |-> r.raised, table |-> r.table]
        /\ locals' = r.locals
        /\ UNCHANGED <<obj, args>>

Next == ToRich

Spec == Init /\ [][Next]_vars

-----------------------------------------------------------------------------
(* _has_background_styles on its own: the style maps a Styler can hold.    *)

CssValues ==
    {css_empty, css_space, css_red, css_RED, css_transparent,
     css_Transparent, css_inherit_sp, css_INITIAL, css_initial, css_inherit,
     css_trans_tab, css_none_word}

StylePairs ==
    {<<"background-color", v>> : v \in CssValues}
    \cup {<<"color", css_red>>, <<"color", css_transparent>>,
          <<"font-weight", bold_>>}

\* the longest style list of a cell
MaxStyleLen == 2

StyleLists(n) == UNION {[1 .. k -> StylePairs] : k \in 0 .. n}

\* a style map over two cells, either of which may be absent
StyleMaps ==
    { DictMerge(m1, m2) :
        m1 \in {EmptyDict} \cup {<<0, 0>> :> l : l \in StyleLists(MaxStyleLen)},
        m2 \in {EmptyDict} \cup {<<1, 0>> :> l : l \in StyleLists(1)} }

InitHasBackground ==
    /\ obj = DF_SALES
    /\ styler = None
    /\ args \in StyleMaps
    /\ ret = [called |-> FALSE, raised |-> "none", value |-> FALSE]
    /\ locals = NoLocals

\* _has_background_styles(args)
HasBackgroundCall ==
    /\ ~ret.called
    /\ ret' = [called |-> TRUE, raised |-> "none",
               value |-> _has_background_styles(args)]
    /\ UNCHANGED <<obj, styler, args, locals>>

SpecHasBackground == InitHasBackground /\ [][HasBackgroundCall]_vars

-----------------------------------------------------------------------------
(* _create_index_gradient_styles on its own.                               *)

PaletteNames ==
    {"viridis", "plasma", "PuBu", "gradient", "no_such_colormap", ""}

\* the longest list of index values
MaxPalette == 9

InitPalette ==
    /\ obj = DF_SALES
    /\ styler = None
    /\ args \in { [index_values |-> [i \in 1 .. n |-> "label"],
                   colormap |-> name] :
                    n \in 0 .. MaxPalette, name \in PaletteNames }
    /\ ret = [called |-> FALSE, raised |-> "none", value |-> <<>>]
    /\ locals = NoLocals

\* _create_index_gradient_styles(index_values, colormap)
PaletteCall ==
    /\ ~ret.called
    /\ ret' = [called |-> TRUE, raised |-> "none",
               value |-> _create_index_gradient_styles(args.index_values,
                                                       args.colormap)]
    /\ UNCHANGED <<obj, styler, args, locals>>

SpecPalette == InitPalette /\ [][PaletteCall]_vars

-----------------------------------------------------------------------------
(* _parse_css_color on its own.  An input is a colour text of one of the   *)
(* forms the function distinguishes, with optional surrounding blanks;     *)
(* form, r, g, b record how the text was built.                            *)

\* channel texts with their integer values
ColorChannels ==
    { [text |-> <<"0">>, n |-> 0], [text |-> <<"9">>, n |-> 9],
      [text |-> <<"1","6">>, n |-> 16], [text |-> <<"2","5","5">>, n |-> 255],
      [text |-> <<"2","5","6">>, n |-> 256] }

ColorSeparators == { <<",">>, <<",", " ">> }

ColorAlphas == { <<"1">>, <<"0", ".", "5">>, <<".">> }

ColorPads == { <<>>, <<" ">> }

ColorBody(form, text) == [form |-> form, text |-> text, r |-> 0, g |-> 0, b |-> 0]

HexColors ==
    { ColorBody("hex", t) : t \in {hex_440154, <<"#","f","f","f">>, <<"#">>} }

RgbColors ==
    { ColorBody("rgb", <<"r","g","b","(">> \o r.text \o sep \o g.text \o sep
                       \o b.text \o <<")">>) :
        r \in ColorChannels, g \in ColorChannels, b \in ColorChannels,
        sep \in ColorSeparators }

RgbaColors ==
    { [form |-> "rgba",
       text |-> <<"r","g","b","a","(">> \o r.text \o sep \o g.text \o sep
                \o b.text \o sep \o a \o <<")">>,
       r |-> r.n, g |-> g.n, b |-> b.n] :
        r \in ColorChannels, g \in ColorChannels, b \in ColorChannels,
        sep \in ColorSeparators, a \in ColorAlphas }

NamedColors == { ColorBody("named", t) : t \in {css_red, css_transparent} }

MalformedColors ==
    { ColorBody("malformed", t) :
        t \in { <<>>,
                <<"r","g","b","(","7",",","7",")">>,
                <<"r","g","b","a","(","7",",","7",",","7",")">>,
                <<"R","G","B","(","7",",","7",",","7",")">>,
                <<"r","g","b","(","7",",","7",",","7",")","x">>,
                <<"r","g","b","a","(","7",",","7",",","7",",","1",")","x">>,
                <<"r","g","b","(","-","1",",","7",",","7",")">> } }

ColorBodies ==
    HexColors \cup RgbColors \cup RgbaColors \cup NamedColors
    \cup MalformedColors

InitParseColor ==
    /\ obj = DF_SALES
    /\ styler = None
    /\ args \in { [css_value |-> lead \o c.text \o trail, form |-> c.form,
                   lead |-> lead, trail |-> trail,
                   r |-> c.r, g |-> c.g, b |-> c.b] :
                    c \in ColorBodies, lead \in ColorPads, trail \in ColorPads }
    /\ ret = [called |-> FALSE, raised |-> "none", value |-> <<>>]
    /\ locals = NoLocals

\* _parse_css_color(css_value)
ParseColorCall ==
    /\ ~ret.called
    /\ ret' = [called |-> TRUE, raised |-> "none",
               value |-> _parse_css_color(args.css_value)]
    /\ UNCHANGED <<obj, styler, args, locals>>

SpecParseColor == InitParseColor /\ [][ParseColorCall]_vars

-----------------------------------------------------------------------------
(* _measure_column_widths on its own, over frames and series built from a  *)
(* few labels and values.                                                  *)

\* column labels: a short one, one longer than every value but the longest,
\* and the key the function uses for the index
MeasureLabels == {"a", "Total", "__index__"}

MeasureValues == {IntV(7, "7"), IntV(123456, "123456")}

\* the most rows of a measured source
MaxRows == 2

SeqsOver(S, lo, hi) == UNION { [1 .. n -> S] : n \in lo .. hi }

\* the indexes of n rows: the default RangeIndex, a named flat index, and a
\* two-level index with an unnamed second level and a missing last label
MeasureIndexes(n) ==
    { FlatIndex(None, [i \in 1 .. n |-> Some(Digits[i])]),
      FlatIndex(Some(StrV("identifier")), [i \in 1 .. n |-> Some(Digits[i])]),
      [multi |-> TRUE, names |-> <<Some(StrV("first")), None>>,
       labels |-> [i \in 1 .. n |->
                     <<Some("bar"),
                       IF i = n THEN None ELSE Some(Digits[i])>>]] }

MeasureFrames ==
    { [kind |-> "DataFrame", name |-> None, columns |-> cols,
       data |-> data, index |-> idx] :
        cols \in SeqsOver(MeasureLabels, 1, 2),
        data \in SeqsOver(SeqsOver(MeasureValues, 1, 2), 0, MaxRows),
        idx \in UNION { MeasureIndexes(n) : n \in 0 .. MaxRows } }

MeasureSeries ==
    { [kind |-> "Series", name |-> name, columns |-> <<>>,
       data |-> data, index |-> idx] :
        name \in {None, Some("Total")},
        data \in SeqsOver(SeqsOver(MeasureValues, 1, 1), 0, MaxRows),
        idx \in UNION { MeasureIndexes(n) : n \in 0 .. MaxRows } }

\* a frame has one value per column in each row and one label per row
WellFormed(o) ==
    /\ Len(o.index.labels) = Len(o.data)
    /\ \A i \in DOMAIN o.data : Len(o.data[i]) = NCols(o)

InitMeasure ==
    /\ obj = DF_SALES
    /\ styler = None
    /\ args \in { [df |-> o, show_index |-> b] :
                    o \in {x \in MeasureFrames \cup MeasureSeries :
                             WellFormed(x)},
                    b \in BOOLEAN }
    /\ ret = [called |-> FALSE, raised |-> "none", value |-> EmptyDict]
    /\ locals = NoLocals

\* _measure_column_widths(df, show_index)
MeasureCall ==
    /\ ~ret.called
    /\ ret' = [called |-> TRUE, raised |-> "none",
               value |-> _measure_column_widths(args.df, args.show_index)]
    /\ UNCHANGED <<obj, styler, args, locals>>

SpecMeasure == InitMeasure /\ [][MeasureCall]_vars

-----------------------------------------------------------------------------
(* _get_index_header_name and _format_multiindex_value on their own.       *)

\* index names: none, the empty string, two strings, and the integers 0
\* and 5 (as after set_index on integer column labels)
IndexNames ==
    {None, Some(StrV("")), Some(StrV("first")), Some(StrV("second")),
     Some(IntV(0, "0")), Some(IntV(5, "5"))}

\* label components: two strings and a missing value
LabelParts == {Some("bar"), Some("one"), None}

\* the most levels of a multi-level index
MaxLevels == 3

HeaderIndexes ==
    { [multi |-> FALSE, names |-> <<name>>, labels |-> <<>>] :
        name \in IndexNames }
    \cup
    { [multi |-> TRUE, names |-> names, labels |-> <<>>] :
        names \in SeqsOver(IndexNames, 2, MaxLevels) }

InitHeaderName ==
    /\ obj = DF_SALES
    /\ styler = None
    /\ args \in { [index |-> index, values |-> values] :
                    index \in HeaderIndexes,
                    values \in SeqsOver(LabelParts, 2, 2) }
    /\ ret = [called |-> FALSE, fn |-> "", raised |-> "none", value |-> None]
    /\ locals = NoLocals

\* _get_index_header_name(index)
HeaderNameCall ==
    /\ ~ret.called
    /\ \E r \in {_get_index_header_name(args.index)} :
          ret' = [called |-> TRUE, fn |-> "_get_index_header_name",
                  raised |-> r.raised, value |-> r.value]
    /\ UNCHANGED <<obj, styler, args, locals>>

\* _format_multiindex_value(values)
FormatLabelCall ==
    /\ ~ret.called
    /\ ret' = [called |-> TRUE, fn |-> "_format_multiindex_value",
               raised |-> "none",
               value |-> Some(StrV(_format_multiindex_value(args.values)))]
    /\ UNCHANGED <<obj, styler, args, locals>>

NextHeaderName == HeaderNameCall \/ FormatLabelCall

SpecHeaderName == InitHeaderName /\ [][NextHeaderName]_vars

-----------------------------------------------------------------------------
(* list_chunks.chunk.  An element of the list is given by its str().       *)

\* list.sort(key=lambda x: len(str(x))) as a stable insertion sort:
\* x goes after every element of sorted whose key is not greater
RECURSIVE InsertByLen(_, _)
InsertByLen(sorted, x) ==
    IF sorted = <<>> THEN <<x>>
    ELSE IF Len(Head(sorted)) <= Len(x)
         THEN <<Head(sorted)>> \o InsertByLen(Tail(sorted), x)
         ELSE <<x>> \o sorted

RECURSIVE SortByLen(_)
SortByLen(xs) ==
    IF xs = <<>> THEN <<>>
    ELSE InsertByLen(SortByLen(SubSeq(xs, 1, Len(xs) - 1)), xs[Len(xs)])

\* xs[i::n] for 0 <= i and n >= 1
Slice(xs, i, n) ==
    [q \in 1 .. ((Len(xs) - i + n - 1) \div n) |-> xs[i + 1 + (q - 1) * n]]

\* int(np.ceil(a / b)) for b # 0
CeilDiv(a, b) == -((-a) \div b)

\* the chunks of chunk_size consecutive elements
chunk_contiguous(iterable, chunk_size, equalize) ==
    Local(IF equalize THEN SortByLen(iterable) ELSE iterable, LAMBDA xs :
        IF chunk_size = 0
        THEN [raised |-> "ZeroDivisionError", value |-> <<>>]
        ELSE Local(CeilDiv(Len(xs), chunk_size), LAMBDA n :
                [raised |-> "none",
                 value |-> [i \in 1 .. n |->
                              SubSeq(xs, (i - 1) * chunk_size + 1,
                                     IF i * chunk_size <= Len(xs)
                                     THEN i * chunk_size ELSE Len(xs))]]))

\* chunk(iterable, chunk_size, equalize): [raised, value]; the division of
\* line 34 raises ZeroDivisionError for chunk_size 0
chunk(iterable, chunk_size, equalize) ==
    Local(IF equalize THEN SortByLen(iterable) ELSE iterable, LAMBDA xs :
        IF chunk_size = 0
        THEN [raised |-> "ZeroDivisionError", value |-> <<>>]
        ELSE Local(CeilDiv(Len(xs), chunk_size), LAMBDA n :
                [raised |-> "none",
                 value |-> [i \in 1 .. n |-> Slice(xs, i - 1, n)]]))

\* str() of the elements: two of the same length, a longer and a shorter
ChunkItems == {"apple", "dates", "banana", "fig"}

\* the longest list and the largest chunk size
MaxList == 4
MaxChunk == 5

InitChunk ==
    /\ obj = DF_SALES
    /\ styler = None
    /\ args \in { [iterable |-> xs, chunk_size |-> c, equalize |-> e] :
                    xs \in SeqsOver(ChunkItems, 0, MaxList),
                    c \in 0 .. MaxChunk, e \in BOOLEAN }
    /\ ret = [called |-> FALSE, raised |-> "none", value |-> <<>>]
    /\ locals = NoLocals

\* chunk(iterable, chunk_size, equalize)
ChunkCall ==
    /\ ~ret.called
    /\ \E r \in {chunk(args.iterable, args.chunk_size, args.equalize)} :
          ret' = [called |-> TRUE, raised |-> r.raised, value |-> r.value]
    /\ UNCHANGED <<obj, styler, args, locals>>

SpecChunk == InitChunk /\ [][ChunkCall]_vars

-----------------------------------------------------------------------------
(* structures.AttrDict.  The dictionary is a function from its keys to     *)
(* values; a value is a leaf (kind "leaf", its text in v), an AttrDict     *)
(* (kind "dict", its items in d, leaves only), a plain dict given by the   *)
(* caller (kind "plain") or a bound method of dict (kind "method").        *)

Leaf(v) == [kind |-> "leaf", v |-> v, d |-> EmptyDict]
Nested(d) == [kind |-> "dict", v |-> "", d |-> d]
PlainDict(d) == [kind |-> "plain", v |-> "", d |-> d]
BoundMethod(name) == [kind |-> "method", v |-> name, d |-> EmptyDict]

\* names the dict class defines (keys, items, ...): found by normal
\* attribute lookup, before __getattr__ is asked
DictAttributes == {"keys"}

AttrKeys == {"c", "d", "keys"}
AttrLeaves == {"1", "nested"}

\* dict without key k
DictRemove(self, k) == [x \in (DOMAIN self) \ {k} |-> self[x]]

\* __getattr__ when the key is read with self[item], which stores a new
\* AttrDict under a missing key
__getattr___setdefault(self, item) ==
    IF item \in DOMAIN self
    THEN [raised |-> "none", value |-> self[item], self |-> self]
    ELSE [raised |-> "none", value |-> Nested(EmptyDict),
          self |-> DictMerge(self, (item :> Nested(EmptyDict)))]

\* __getattr__(self, item): dict.__getitem__, KeyError turned into
\* AttributeError
__getattr__(self, item) ==
    IF item \in DOMAIN self
    THEN [raised |-> "none", value |-> self[item], self |-> self]
    ELSE [raised |-> "AttributeError", value |-> Leaf(""), self |-> self]

\* the expression self.item: the attribute of the class if there is one,
\* else __getattr__
GetAttribute(self, item) ==
    IF item \in DictAttributes
    THEN [raised |-> "none", value |-> BoundMethod(item), self |-> self]
    ELSE __getattr__(self, item)

\* __setitem__(self, key, value): a plain dict becomes an AttrDict
__setitem__(self, key, value) ==
    DictMerge(self, (key :> (IF value.kind = "plain" THEN Nested(value.d)
                             ELSE value)))

\* __setattr__(self, key, value)
__setattr__(self, key, value) ==
    [raised |-> "none", value |-> Leaf(""),
     self |-> __setitem__(self, key, value)]

\* __delattr__(self, item): dict.__delitem__, KeyError turned into
\* AttributeError
__delattr__(self, item) ==
    IF item \in DOMAIN self
    THEN [raised |-> "none", value |-> Leaf(""),
          self |-> DictRemove(self, item)]
    ELSE [raised |-> "AttributeError", value |-> Leaf(""), self |-> self]

\* __getitem__(self, key): dict.setdefault(key, AttrDict())
__getitem__(self, key) ==
    IF key \in DOMAIN self
    THEN [raised |-> "none", value |-> self[key], self |-> self]
    ELSE [raised |-> "none", value |-> Nested(EmptyDict),
          self |-> DictMerge(self, (key :> Nested(EmptyDict)))]

\* self.first.second = value: the read of self.first, then the assignment
\* on what it returned (a str or a method has no settable attribute)
ChainedAssign(self, first, second, value) ==
    Local(GetAttribute(self, first), LAMBDA got :
        IF got.raised # "none" THEN got
        ELSE IF got.value.kind # "dict"
        THEN [raised |-> "AttributeError", value |-> Leaf(""),
              self |-> got.self]
        ELSE [raised |-> "none", value |-> Leaf(""),
              self |-> DictMerge(got.self,
                          (first :> Nested(__setitem__(got.value.d, second,
                                                       value))))])

\* self.first.second
ChainedRead(self, first, second) ==
    Local(GetAttribute(self, first), LAMBDA got :
        IF got.raised # "none" THEN got
        ELSE IF got.value.kind # "dict"
        THEN [raised |-> "AttributeError", value |-> Leaf(""),
              self |-> got.self]
        ELSE Local(GetAttribute(got.value.d, second), LAMBDA inner :
                [inner EXCEPT !.self = got.self]))

NoOp == [op |-> "", key |-> "", second |-> "", value |-> Leaf("")]

InitAttrDict ==
    /\ obj = EmptyDict
    /\ styler = None
    /\ args = NoOp
    /\ ret = [called |-> FALSE, raised |-> "none", value |-> Leaf("")]
    /\ locals = NoLocals

\* the statement the caller runs, with what it returned or raised
Ran(op, r) ==
    /\ args' = op
    /\ obj' = r.self
    /\ ret' = [called |-> TRUE, raised |-> r.raised, value |-> r.value]
    /\ UNCHANGED <<styler, locals>>

\* ad.key
AttrRead ==
    \E k \in AttrKeys :
        Ran([NoOp EXCEPT !.op = "getattr", !.key = k], GetAttribute(obj, k))

\* ad.key = value
AttrWrite ==
    \E k \in AttrKeys, v \in {Leaf(x) : x \in AttrLeaves}
                            \cup {PlainDict(EmptyDict)} :
        Ran([NoOp EXCEPT !.op = "setattr", !.key = k, !.value = v],
            __setattr__(obj, k, v))

\* del ad.key
AttrDelete ==
    \E k \in AttrKeys :
        Ran([NoOp EXCEPT !.op = "delattr", !.key = k], __delattr__(obj, k))

\* ad[key]
ItemRead ==
    \E k \in AttrKeys :
        Ran([NoOp EXCEPT !.op = "getitem", !.key = k], __getitem__(obj, k))

\* ad.key.d = value
AttrChainedWrite ==
    \E k \in AttrKeys, v \in AttrLeaves :
        Ran([NoOp EXCEPT !.op = "chained_set", !.key = k, !.second = "d",
                         !.value = Leaf(v)],
            ChainedAssign(obj, k, "d", Leaf(v)))

\* ad.key.d
AttrChainedRead ==
    \E k \in AttrKeys :
        Ran([NoOp EXCEPT !.op = "chained_get", !.key = k, !.second = "d"],
            ChainedRead(obj, k, "d"))

NextAttrDict ==
    \/ AttrRead \/ AttrWrite \/ AttrDelete \/ ItemRead
    \/ AttrChainedWrite \/ AttrChainedRead

SpecAttrDict == InitAttrDict /\ [][NextAttrDict]_vars

-----------------------------------------------------------------------------
(* addpath of pirrtools/__init__.py.  sys.path is a list of strings.       *)

\* str(Path(path).expanduser().absolute()) with the working directory "/":
\* a relative path is anchored, an absolute one is kept
AbsolutePath(path) ==
    CASE path = "b" -> "/b"
      [] path = "./b" -> "/b"
      [] OTHER -> path

\* [p for p in xs if p != x]
RECURSIVE Without(_, _)
Without(xs, x) ==
    IF xs = <<>> THEN <<>>
    ELSE IF Head(xs) = x THEN Without(Tail(xs), x)
    ELSE <<Head(xs)>> \o Without(Tail(xs), x)

\* list.insert(position, x): the index is clipped to the list; a negative
\* position counts from the end
ListInsert(xs, position, x) ==
    LET at == IF position >= 0
              THEN (IF position > Len(xs) THEN Len(xs) ELSE position)
              ELSE (IF Len(xs) + position < 0 THEN 0 ELSE Len(xs) + position)
    IN  SubSeq(xs, 1, at) \o <<x>> \o SubSeq(xs, at + 1, Len(xs))

\* addpath that inserts only a path that is not yet in sys.path
addpath_if_absent(sys_path, path, position) ==
    Local(AbsolutePath(path), LAMBDA path_str :
        IF \E k \in DOMAIN sys_path : sys_path[k] = path_str THEN sys_path
        ELSE ListInsert(sys_path, position, path_str))

\* addpath(path, position): the new sys.path
addpath(sys_path, path, position) ==
    Local(AbsolutePath(path), LAMBDA path_str :
        ListInsert(Without(sys_path, path_str), position, path_str))

AddedPaths == {"/a", "/b", "b", "./b", "/c"}

\* the largest position passed (the smallest is its negative)
MaxPosition == 3

InitAddPath ==
    /\ obj = <<"/usr/lib", "/site-packages">>
    /\ styler = None
    /\ args = [path |-> "", position |-> 0]
    /\ ret = [called |-> FALSE, raised |-> "none", value |-> None]
    /\ locals = NoLocals

\* addpath(path, position=position)
AddPath ==
    \E path \in AddedPaths, position \in (-MaxPosition) .. MaxPosition :
        /\ args' = [path |-> path, position |-> position]
        /\ obj' = addpath(obj, path, position)
        /\ ret' = [called |-> TRUE, raised |-> "none", value |-> None]
        /\ UNCHANGED <<styler, locals>>

SpecAddPath == InitAddPath /\ [][AddPath]_vars

-----------------------------------------------------------------------------
(* The cache: _save_index, _load_index, _save_values, _load_values,        *)
(* _save_cache, load_cache, cache_and_load.  The filesystem is the         *)
(* directory at the cache path: None when the path does not exist, else    *)
(* <<files>> with files a map from file names to contents.                 *)

FloatV(n, s) == [t |-> "float", n |-> n, s |-> s]

\* a Series name: a str or a tuple of str
NameStr(x) == [kind |-> "str", items |-> <<x>>]
NameTuple(xs) == [kind |-> "tuple", items |-> xs]

\* json.dump then json.load of a name: a tuple is written as an array and
\* read back as a list
JsonRoundTrip(name) ==
    IF name = None THEN None
    ELSE IF Val(name).kind = "tuple"
    THEN Some([Val(name) EXCEPT !.kind = "list"])
    ELSE name

\* the dtype of column j (1-based) of a matrix of cells: the type of its
\* cells, "object" when they differ
ColumnDtype(data, j) ==
    LET types == {data[i][j].t : i \in DOMAIN data}
    IN  IF Cardinality(types) = 1 THEN CHOOSE t \in types : TRUE
        ELSE "object"

MatrixDtypes(o) == {ColumnDtype(o.data, j) : j \in 1 .. NCols(o)}

\* float(cell)
AsFloat(cell) ==
    IF cell.t = "int" THEN FloatV(cell.n, cell.s \o ".0") ELSE cell

\* df.values: one array for the whole object, of the common dtype of the
\* columns: int and float columns together give a float array, anything
\* else mixed gives an object array that holds the cells as they are
FrameValues(o) ==
    IF MatrixDtypes(o) = {"int", "float"}
    THEN [i \in DOMAIN o.data |->
            [j \in DOMAIN o.data[i] |-> AsFloat(o.data[i][j])]]
    ELSE o.data

\* to_feather raises ArrowInvalid on a column whose cells differ in type
FeatherRejects(matrix) ==
    \E j \in 1 .. (IF matrix = <<>> THEN 0 ELSE Len(matrix[1])) :
        ColumnDtype(matrix, j) = "object"

\* _save_index(index, path, name): the two files it writes, names as read
\* back from JSON
_save_index(index, name) ==
    ((name \o "_index.json") :> index.names)
    @@ ((name \o "_index.feather") :> index.labels)

\* _load_index(path, name): MultiIndex.from_frame, flattened when it has
\* one level
_load_index(files, name) ==
    Local(files[name \o "_index.json"], LAMBDA level_names :
        [multi |-> Len(level_names) # 1, names |-> level_names,
         labels |-> files[name \o "_index.feather"]])

\* the columns of a cached frame as an index of one unnamed level
ColumnsIndex(o) ==
    [multi |-> FALSE, names |-> <<None>>,
     labels |-> [k \in DOMAIN o.columns |-> <<Some(o.columns[k])>>]]

\* the files of a completed save of o (lines 560-569)
CacheFiles(o) ==
    IF o.kind = "DataFrame"
    THEN _save_index(o.index, "index") @@ _save_index(ColumnsIndex(o), "columns")
         @@ ("values.feather" :> FrameValues(o))
    ELSE _save_index(o.index, "index")
         @@ ("values.feather" :> FrameValues(o))
         @@ ("series.json" :> JsonRoundTrip(o.name))

\* df.empty
IsEmpty(o) == NRows(o) = 0 \/ NCols(o) = 0

\* _save_cache(df, path, overwrite): what it raises and the directory
\* afterwards
_save_cache(fs, df, overwrite) ==
    IF fs # None /\ ~overwrite /\ DOMAIN Val(fs) # {}
    THEN [raised |-> "FileExistsError", fs |-> fs]
    ELSE Local(IF fs # None /\ overwrite THEN None ELSE fs, LAMBDA cleared :
        IF IsEmpty(df) THEN [raised |-> "ValueError", fs |-> cleared]
        ELSE IF FeatherRejects(FrameValues(df))
        THEN [raised |-> "ValueError", fs |-> None]
        ELSE [raised |-> "none",
              fs |-> Some(CacheFiles(df)
                          @@ (IF cleared = None THEN EmptyDict
                              ELSE Val(cleared)))])

\* load_cache(path): [raised, value]; value is <<object>> when it returns
load_cache(fs) ==
    IF fs = None THEN [raised |-> "FileNotFoundError", value |-> None]
    ELSE Local(Val(fs), LAMBDA files :
        IF "columns_index.feather" \in DOMAIN files
        THEN IF {"index_index.json", "index_index.feather",
                 "columns_index.json", "values.feather"} \subseteq DOMAIN files
             THEN [raised |-> "none",
                   value |-> Some(
                     [kind |-> "DataFrame", name |-> None,
                      columns |-> [k \in DOMAIN files["columns_index.feather"]
                                     |-> Val(files["columns_index.feather"][k][1])],
                      data |-> files["values.feather"],
                      index |-> _load_index(files, "index")])]
             ELSE [raised |-> "FileNotFoundError", value |-> None]
        ELSE IF {"index_index.json", "index_index.feather", "values.feather",
                 "series.json"} \subseteq DOMAIN files
        THEN IF Len(files["values.feather"]) = 1
             \* squeeze() of one row and one column is a scalar, which
             \* has no attribute name
             THEN [raised |-> "AttributeError", value |-> None]
             ELSE [raised |-> "none",
                   value |-> Some(
                     [kind |-> "Series",
                      name |-> Local(files["series.json"], LAMBDA name :
                                 IF name # None /\ Val(name).kind = "list"
                                 THEN Some([Val(name) EXCEPT !.kind = "tuple"])
                                 ELSE name),
                      columns |-> <<>>,
                      data |-> files["values.feather"],
                      index |-> _load_index(files, "index")])]
        ELSE [raised |-> "FileNotFoundError", value |-> None])

\* cache_and_load(obj, path, overwrite)
cache_and_load(fs, df, overwrite) ==
    Local(_save_cache(fs, df, overwrite), LAMBDA saved :
        IF saved.raised # "none"
        THEN [raised |-> saved.raised, value |-> None, fs |-> saved.fs]
        ELSE Local(load_cache(saved.fs), LAMBDA loaded :
                [raised |-> loaded.raised, value |-> loaded.value,
                 fs |-> saved.fs]))

\* pd.DataFrame({"a": [1, 2, 3], "b": [4, 5, 6]})
CF_SIMPLE ==
    [kind |-> "DataFrame", name |-> None, columns |-> <<"a", "b">>,
     data |-> << <<IntV(1, "1"), IntV(4, "4")>>,
                 <<IntV(2, "2"), IntV(5, "5")>>,
                 <<IntV(3, "3"), IntV(6, "6")>> >>,
     index |-> FlatIndex(None, <<Some("0"), Some("1"), Some("2")>>)]

\* pd.DataFrame({"ints": [1, 2], "floats": [1.1, 2.2]})
CF_FLOATS ==
    [kind |-> "DataFrame", name |-> None, columns |-> <<"ints", "floats">>,
     data |-> << <<IntV(1, "1"), FloatV(1, "1.1")>>,
                 <<IntV(2, "2"), FloatV(2, "2.2")>> >>,
     index |-> FlatIndex(None, <<Some("0"), Some("1")>>)]

\* one row and one column
CF_ONE ==
    [kind |-> "DataFrame", name |-> None, columns |-> <<"a">>,
     data |-> << <<IntV(1, "1")>> >>,
     index |-> FlatIndex(Some(StrV("id")), <<Some("x")>>)]

\* pd.DataFrame()
CF_EMPTY ==
    [kind |-> "DataFrame", name |-> None, columns |-> <<>>,
     data |-> <<>>, index |-> FlatIndex(None, <<>>)]

\* pd.Series([1, 2, 3], name="test_series")
CS_SIMPLE ==
    [kind |-> "Series", name |-> Some(NameStr("test_series")),
     columns |-> <<>>,
     data |-> << <<IntV(1, "1")>>, <<IntV(2, "2")>>, <<IntV(3, "3")>> >>,
     index |-> FlatIndex(None, <<Some("0"), Some("1"), Some("2")>>)]

\* pd.Series([1], name="one")
CS_ONE ==
    [kind |-> "Series", name |-> Some(NameStr("one")), columns |-> <<>>,
     data |-> << <<IntV(1, "1")>> >>,
     index |-> FlatIndex(None, <<Some("0")>>)]

\* a Series with a two-level index and a tuple as its name
CS_MULTI ==
    [kind |-> "Series", name |-> Some(NameTuple(<<"a", "b">>)),
     columns |-> <<>>,
     data |-> << <<FloatV(1, "1.5")>>, <<FloatV(2, "2.5")>> >>,
     index |-> [multi |-> TRUE,
                names |-> <<Some(StrV("first")), Some(StrV("second"))>>,
                labels |-> << <<Some("bar"), Some("one")>>,
                              <<Some("bar"), Some("two")>> >>]]

\* pd.Series([1, "three"], name="various"): no Arrow type holds both
CS_VARIOUS ==
    [kind |-> "Series", name |-> Some(NameStr("various")), columns |-> <<>>,
     data |-> << <<IntV(1, "1")>>, <<StrV("three")>> >>,
     index |-> FlatIndex(None, <<Some("0"), Some("1")>>)]

\* pd.Series([], dtype=float)
CS_EMPTY ==
    [kind |-> "Series", name |-> None, columns |-> <<>>,
     data |-> <<>>, index |-> FlatIndex(None, <<>>)]

CacheObjects ==
    {CF_SIMPLE, CF_FLOATS, CF_ONE, CF_EMPTY, DF_MULTI,
     CS_SIMPLE, CS_ONE, CS_MULTI, CS_VARIOUS, CS_EMPTY}

\* the directory before the first call: absent, empty, or holding a file
\* that is not part of a cache
InitialDirs == {None, Some(EmptyDict), Some(("dummy_file.txt" :> <<>>))}

InitCache ==
    /\ obj \in InitialDirs
    /\ styler = None
    /\ args = [op |-> "", df |-> CF_EMPTY, overwrite |-> FALSE]
    /\ ret = [called |-> FALSE, raised |-> "none", value |-> None]
    /\ locals = NoLocals

\* df.pirr.to_cache(path, overwrite=overwrite)
SaveCache ==
    \E df \in CacheObjects, overwrite \in BOOLEAN :
        \E r \in {_save_cache(obj, df, overwrite)} :
            /\ args' = [op |-> "_save_cache", df |-> df,
                        overwrite |-> overwrite]
            /\ obj' = r.fs
            /\ ret' = [called |-> TRUE, raised |-> r.raised, value |-> None]
            /\ UNCHANGED <<styler, locals>>

\* load_cache(path)
LoadCache ==
    \E r \in {load_cache(obj)} :
        /\ args' = [op |-> "load_cache", df |-> CF_EMPTY, overwrite |-> FALSE]
        /\ ret' = [called |-> TRUE, raised |-> r.raised, value |-> r.value]
        /\ UNCHANGED <<obj, styler, locals>>

\* cache_and_load(df, path, overwrite=overwrite)
CacheAndLoad ==
    \E df \in CacheObjects, overwrite \in BOOLEAN :
        \E r \in {cache_and_load(obj, df, overwrite)} :
            /\ args' = [op |-> "cache_and_load", df |-> df,
                        overwrite |-> overwrite]
            /\ obj' = r.fs
            /\ ret' = [called |-> TRUE, raised |-> r.raised,
                       value |-> r.value]
            /\ UNCHANGED <<styler, locals>>

NextCache == SaveCache \/ LoadCache \/ CacheAndLoad

SpecCache == InitCache /\ [][NextCache]_vars

(***************************************************************************)
(* sequences.FibCalculator.  obj is the memo cache _cache, a map from      *)
(* indices to numbers.  A call runs in steps: locals.stack holds the       *)
(* frames of the calls in progress, the innermost last (n, the position    *)
(* pc in __call__ and, once known, fk0), and locals.rv the value a         *)
(* finished call hands to its caller.                                      *)
(***************************************************************************)
MaxFib == 12

FibInputs == (0 - 2) .. MaxFib

\* self._cache = {0: 0, 1: 1, 2: 1}
BaseCache == (0 :> 0) @@ (1 :> 1) @@ (2 :> 1)

Frame(n) == [n |-> n, pc |-> "start", fk0 |-> 0]

Top(stack) == stack[Len(stack)]

Pop(stack) == SubSeq(stack, 1, Len(stack) - 1)

SetTop(stack, f) == [stack EXCEPT ![Len(stack)] = f]

\* the two stores with the terms of the first one exchanged
fast_doubling_exchanged(cache, k0, fk0, fk1) ==
    ((2 * k0 + 1) :> (fk0 * fk0 + fk1 * fk1))
        @@ ((2 * k0) :> (fk1 * (2 * fk0 - fk1))) @@ cache

\* self._cache[2 * k0] = fk0 * (2 * fk1 - fk0)
\* self._cache[2 * k0 + 1] = fk0**2 + fk1**2
fast_doubling(cache, k0, fk0, fk1) ==
    ((2 * k0 + 1) :> (fk0 * fk0 + fk1 * fk1))
        @@ ((2 * k0) :> (fk0 * (2 * fk1 - fk0))) @@ cache

InitFib ==
    /\ obj = BaseCache
    /\ styler = None
    /\ args = [n |-> 0]
    /\ ret = [called |-> TRUE, raised |-> "none", value |-> Some(0)]
    /\ locals = [stack |-> <<>>, rv |-> None]

Idle == locals.stack = <<>> /\ locals.rv = None

AtStart == /\ locals.stack # <<>>
           /\ locals.rv = None
           /\ Top(locals.stack).pc = "start"

\* fib(n), called by the user when no call is in progress
FibCall ==
    /\ Idle
    /\ \E n \in FibInputs :
        /\ args' = [n |-> n]
        /\ locals' = [stack |-> <<Frame(n)>>, rv |-> None]
    /\ ret' = [called |-> FALSE, raised |-> "none", value |-> None]
    /\ UNCHANGED <<obj, styler>>

\* if n < 0: raise ValueError
FibRaise ==
    /\ AtStart
    /\ Top(locals.stack).n < 0
    /\ locals' = [stack |-> <<>>, rv |-> None]
    /\ ret' = [called |-> TRUE, raised |-> "ValueError", value |-> None]
    /\ UNCHANGED <<obj, styler, args>>

\* if n in self._cache: return self._cache[n]
FibHit ==
    /\ AtStart
    /\ Top(locals.stack).n >= 0
    /\ Top(locals.stack).n \in DOMAIN obj
    /\ locals' = [stack |-> Pop(locals.stack),
                  rv |-> Some(obj[Top(locals.stack).n])]
    /\ UNCHANGED <<obj, styler, args, ret>>

\* k0, k1 = n // 2, n // 2 + 1;  self(k0)
FibDescend ==
    /\ AtStart
    /\ Top(locals.stack).n >= 0
    /\ Top(locals.stack).n \notin DOMAIN obj
    /\ locals' = [stack |-> Append(
                      SetTop(locals.stack,
                             [Top(locals.stack) EXCEPT !.pc = "k0"]),
                      Frame(Top(locals.stack).n \div 2)),
                  rv |-> None]
    /\ UNCHANGED <<obj, styler, args, ret>>

\* self(k0) has returned fk0;  self(k1)
FibSecond ==
    /\ locals.stack # <<>>
    /\ locals.rv # None
    /\ Top(locals.stack).pc = "k0"
    /\ locals' = [stack |-> Append(
                      SetTop(locals.stack,
                             [Top(locals.stack) EXCEPT !.pc = "k1",
                                                       !.fk0 = Val(locals.rv)]),
                      Frame(Top(locals.stack).n \div 2 + 1)),
                  rv |-> None]
    /\ UNCHANGED <<obj, styler, args, ret>>

\* self(k1) has returned fk1;  the two stores;  return self._cache[n]
FibStore ==
    /\ locals.stack # <<>>
    /\ locals.rv # None
    /\ Top(locals.stack).pc = "k1"
    /\ \E c \in {fast_doubling(obj, Top(locals.stack).n \div 2,
                               Top(locals.stack).fk0, Val(locals.rv))} :
        /\ obj' = c
        /\ locals' = [stack |-> Pop(locals.stack),
                      rv |-> Some(c[Top(locals.stack).n])]
    /\ UNCHANGED <<styler, args, ret>>

\* the outermost call returns to the user
FibReturn ==
    /\ locals.stack = <<>>
    /\ locals.rv # None
    /\ ret' = [called |-> TRUE, raised |-> "none", value |-> locals.rv]
    /\ locals' = [stack |-> <<>>, rv |-> None]
    /\ UNCHANGED <<obj, styler, args>>

FibStep == FibRaise \/ FibHit \/ FibDescend \/ FibSecond \/ FibStore
               \/ FibReturn

NextFib == FibCall \/ FibRaise \/ FibHit \/ FibDescend \/ FibSecond
               \/ FibStore \/ FibReturn

\* a call that has begun keeps running: the interpreter executes the next
\* statement of the innermost frame
SpecFib == InitFib /\ [][NextFib]_vars /\ WF_vars(FibStep)

(***************************************************************************)
(* sequences.lcm.  The arguments are a tuple of integers; the result is    *)
(* [raised, value].                                                        *)
(***************************************************************************)
MaxArg == 6

MaxArgs == 3

RECURSIVE gcd(_, _)
gcd(x, y) == IF y = 0 THEN x ELSE gcd(y, x % y)

\* int(x * y / gcd(x, y)): the true division raises ZeroDivisionError for a
\* zero divisor; the quotient of the model's numbers is far below 2**53,
\* where the float is exact, and int() gives it back
lcm_step(x, y) ==
    IF gcd(x, y) = 0
    THEN [raised |-> "ZeroDivisionError", value |-> 0]
    ELSE [raised |-> "none", value |-> (x * y) \div gcd(x, y)]

\* reduce(function, a) from position i on, with the accumulated value x
RECURSIVE reduce(_, _, _)
reduce(x, a, i) ==
    IF i > Len(a) THEN [raised |-> "none", value |-> x]
    ELSE Local(lcm_step(x, a[i]),
               LAMBDA r : IF r.raised # "none" THEN r
                          ELSE reduce(r.value, a, i + 1))

lcm(a) ==
    IF a = <<>> THEN [raised |-> "TypeError", value |-> 0]
    ELSE reduce(a[1], a, 2)

LcmArguments == SeqsOver(0 .. MaxArg, 1, MaxArgs)

InitLcm ==
    /\ obj = None
    /\ styler = None
    /\ args \in [a : LcmArguments]
    /\ ret = [called |-> FALSE, raised |-> "none", value |-> 0]
    /\ locals = NoLocals

LcmCall ==
    /\ ~ret.called
    /\ \E r \in {lcm(args.a)} :
        ret' = [called |-> TRUE, raised |-> r.raised, value |-> r.value]
    /\ UNCHANGED <<obj, styler, args, locals>>

NextLcm == LcmCall

SpecLcm == InitLcm /\ [][NextLcm]_vars

(***************************************************************************)
(* find_instances of pirrtools/__init__.py.  A module is named by the      *)
(* components of its dotted __name__.  obj maps each module to what its    *)
(* namespace holds: whether it has an attribute x that is an instance of   *)
(* cls, and the modules it has as attributes (each under the last          *)
(* component of that module's name).  A tracker maps attribute names to    *)
(* entries: an instance found (kind "inst", of the module it was found     *)
(* in) or the tracker of a module (kind "tracker", its items in d).        *)
(***************************************************************************)
MaxRefs == 2

\* the depth of nested calls at which the interpreter raises RecursionError
RecursionLimit == 6

Modules == {<<"p">>, <<"p", "a">>, <<"p", "b">>, <<"q">>}

ModuleOrder == << <<"p">>, <<"p", "a">>, <<"p", "b">>, <<"q">> >>

\* module.__name__.split(".", maxsplit=1)[0]
get_base_package(module) == module[1]

Instance(m) == [kind |-> "inst", of |-> m, d |-> EmptyDict]

SubTracker(t) == [kind |-> "tracker", of |-> <<>>, d |-> t]

\* the modules a module holds as attributes, in the order of its namespace
Refs(graph, module) ==
    SelectSeq(ModuleOrder, LAMBDA t : t \in graph[module].refs)

\* vars(module).items(): the instance x, then the module attributes
Items(graph, module) ==
    (IF graph[module].inst
     THEN << [name |-> "x", kind |-> "inst", target |-> module] >>
     ELSE <<>>)
    \o [k \in 1 .. Len(Refs(graph, module)) |->
          [name |-> Refs(graph, module)[k][Len(Refs(graph, module)[k])],
           kind |-> "module",
           target |-> Refs(graph, module)[k]]]

RECURSIVE find_instances(_, _, _)
RECURSIVE scan(_, _, _, _, _)

\* find_instances(cls, module) called at the given depth of nested calls:
\* [raised, value]
find_instances(graph, module, depth) ==
    IF depth > RecursionLimit
    THEN [raised |-> "RecursionError", value |-> EmptyDict]
    ELSE scan(graph, module, 1, EmptyDict, depth)

\* the for loop from the i-th item on
scan(graph, module, i, tracker, depth) ==
    IF i > Len(Items(graph, module))
    THEN [raised |-> "none", value |-> tracker]
    ELSE Local(Items(graph, module)[i], LAMBDA item :
        IF item.kind = "inst"
        THEN scan(graph, module, i + 1,
                  DictMerge(tracker, (item.name :> Instance(item.target))),
                  depth)
        ELSE IF get_base_package(item.target) = get_base_package(module)
        THEN Local(find_instances(graph, item.target, depth + 1),
                   LAMBDA sub :
                 IF sub.raised # "none" THEN sub
                 ELSE IF sub.value # EmptyDict
                 THEN scan(graph, module, i + 1,
                           DictMerge(tracker,
                                     (item.name :> SubTracker(sub.value))),
                           depth)
                 ELSE scan(graph, module, i + 1, tracker, depth))
        ELSE scan(graph, module, i + 1, tracker, depth))

\* the namespaces: a module holds at most MaxRefs modules; q holds none
ModuleGraphs ==
    { g \in [Modules -> [inst : BOOLEAN,
                         refs : {r \in SUBSET Modules :
                                     Cardinality(r) <= MaxRefs}]] :
        g[<<"q">>].refs = {} }

InitFind ==
    /\ obj \in ModuleGraphs
    /\ styler = None
    /\ args = [module |-> <<"p">>]
    /\ ret = [called |-> FALSE, raised |-> "none", value |-> EmptyDict]
    /\ locals = NoLocals

\* find_instances(cls, module)
FindInstances ==
    /\ ~ret.called
    /\ \E module \in Modules :
        \E r \in {find_instances(obj, module, 1)} :
            /\ args' = [module |-> module]
            /\ ret' = [called |-> TRUE, raised |-> r.raised,
                       value |-> r.value]
    /\ UNCHANGED <<obj, styler, locals>>

NextFind == FindInstances

SpecFind == InitFind /\ [][NextFind]_vars

-----------------------------------------------------------------------------
(* Properties                                                              *)

Returned == ret.called /\ ret.raised = "none" /\ ret.table # None

Table == Val(ret.table)

DataColumns == {k \in DOMAIN Table.columns : Table.columns[k].kind = "data"}

\* the cells of row r that belong to data columns
DataCells(r) == {k \in DOMAIN Table.rows[r] : k \in DataColumns}

UnknownColormap(name) ==
    name # None /\ Val(name) # "gradient" /\ ~IsColormap(Val(name))

\* C1: a to_rich call always returns a table and never raises, whatever
\* the options (unknown colormaps, a format that is neither str nor dict or
\* a dict of unusable formatters, a failing styler, raising formatters).
C1_NeverRaises == ret.called => (ret.raised = "none" /\ ret.table # None)

\* C2: an unknown bg or tg colormap drops only that gradient: the styles
\* and the formatting functions of the call are those of the same call
\* made without the failing gradient.
C2_OnlyFailedGradientDropped ==
    [][ (UnknownColormap(args.bg) \/ UnknownColormap(args.tg))
        => LET without ==
                   [args EXCEPT
                      !.bg = IF UnknownColormap(@) THEN None ELSE @,
                      !.tg = IF UnknownColormap(@) THEN None ELSE @]
               ref == to_rich(obj, styler, without)
           IN  /\ ret'.raised = ref.raised
               /\ locals'.styles = ref.locals.styles
               /\ locals'.format_funcs = ref.locals.format_funcs ]_vars

\* C3: to_rich never mutates the caller's Styler: its pending style
\* operations and its formatting functions are the same after every call.
C3_StylerNotMutated == [][styler' = styler]_vars

\* C4: rendering is idempotent: a second call with the same source, the
\* same Styler object and the same options gives the same table.
C4_Idempotent ==
    [][ret.called => (ret'.table = ret.table /\ ret'.raised = ret.raised)]_vars

\* the final value of layout field f: None when the field is not passed on
FinalValue(f) == DictGet(Table.kwargs, f)

\* the preset the spec names for the call
NamedPreset ==
    IF _has_background_styles(locals.styles) \/ args.minimize_gaps
    THEN CompactPreset ELSE SpaciousPreset

BackgroundValues == {css_red, css_RED, css_none_word}

\* C8: has_background is true exactly when some entry holds a
\* background-color whose trimmed, lowercased value is none of "",
\* "transparent", "inherit", "initial".
C8_HasBackground ==
    ret.called =>
        (ret.value <=>
            \E pos \in DOMAIN args :
                \E k \in DOMAIN args[pos] :
                    /\ args[pos][k][1] = "background-color"
                    /\ args[pos][k][2] \in BackgroundValues)

\* a map whose only background-color values are spellings of transparent
\* and inherit, next to another property
C8_Witness ==
    /\ ret.called /\ ~ret.value
    /\ args = (<<0, 0>> :> << <<"background-color", css_trans_tab>>,
                              <<"color", css_red>> >>)
              @@ (<<1, 0>> :> << <<"background-color", css_inherit_sp>> >>)

C10_OverlayWins ==
    (Returned /\ args.alternating_rows) =>
        \A r \in DOMAIN Table.rows :
            \A k \in DataCells(r) :
                LET alt == args.alternating_row_colors[((r - 1) % 2) + 1]
                IN  /\ ((r - 1) % 2 = 1 /\ alt # <<>>)
                        => Table.rows[r][k].style = alt
                    /\ ((r - 1) % 2 = 0 /\ alt = <<>>)
                        => Table.rows[r][k].style = <<>>

\* the index cell of row r (1-based) of the returned table, shown index
IndexCellOf(r) == Table.rows[r][1]

\* the palette the call asks for over its index labels
IndexPalette ==
    _create_index_gradient_styles(IndexValues(obj), Val(args.index_bg))

\* C11: for a DataFrame and for a Series the table has one row per source
\* row, in source order; with alternating_rows every data cell of the row at
\* 0-based position r has the overlay alternating_row_colors[r mod 2] as its
\* style, and with an index gradient on a shown index the index cell of that
\* row has palette entry r as its style.
C11_RowOverlays ==
    Returned =>
        /\ Len(Table.rows) = NRows(obj)
        /\ \A r \in DOMAIN Table.rows :
            /\ (locals.format_funcs = EmptyDict /\ ~locals.has_backgrounds)
                => \A k \in DataCells(r) :
                      Table.rows[r][k].plain =
                          Cell(obj, <<r - 1,
                                      k - 1 - (IF args.show_index THEN 1
                                               ELSE 0)>>).s
            /\ args.alternating_rows
                => \A k \in DataCells(r) :
                      Table.rows[r][k].style =
                          args.alternating_row_colors[((r - 1) % 2) + 1]
            /\ (args.index_bg # None /\ args.show_index)
                => IndexCellOf(r).style = IndexPalette[r]

\* C11 restricted to DataFrame sources
C11_RowOverlaysFrame == obj.kind = "DataFrame" => C11_RowOverlays

\* does the style list css set the property prop?
SetsProperty(css, prop) == \E k \in DOMAIN css : css[k][1] = prop

IsBackgroundSpan(style) == Len(style) >= 3 /\ SubSeq(style, 1, 3) = on_

IsColorSpan(style) ==
    ~IsBackgroundSpan(style) /\ style # bold_ /\ style # italic_

\* the span applied last among those that style the property prop
\* (background-color or color), None when there is none
LastSpan(spans, prop) ==
    LET at == {k \in DOMAIN spans :
                  IF prop = "background-color"
                  THEN IsBackgroundSpan(spans[k]) ELSE IsColorSpan(spans[k])}
    IN  IF at = {} THEN None
        ELSE Some(spans[CHOOSE k \in at : \A m \in at : m <= k])

\* the data cell of the table tbl at the 0-based position pos of the source
CellAt(tbl, pos) ==
    tbl.rows[pos[1] + 1][pos[2] + 1 + (IF args.show_index THEN 1 ELSE 0)]

\* the colormap a gradient argument names
GradientName(arg) == IF Val(arg) = "gradient" THEN "PuBu" ELSE Val(arg)

\* the gradient of the call wins on every cell where the caller's Styler
\* sets the same property and where the gradient applies
GradientWins(kind, arg, prop) ==
    LET before == StylerCompute(obj, Val(styler))
    IN  before.ok =>
            \A pos \in DOMAIN before.ctx :
                (SetsProperty(before.ctx[pos], prop)
                 /\ IsNumericColumn(obj, pos[2]))
                => LastSpan(CellAt(Val(ret'.table), pos).spans, prop) =
                       Some((IF prop = "background-color" THEN on_ ELSE <<>>)
                            \o GradientColor(obj,
                                   GradientOp(kind, GradientName(arg)), pos))

\* a gradient argument that names a colormap and has usable keywords
GradientRequested(arg, kwargs) ==
    arg # None /\ IsColormap(GradientName(arg)) /\ kwargs = None

\* C12: in a call with a caller's Styler that returns a table, a bg gradient
\* gives the background applied last on every cell where the Styler already
\* sets background-color, and a tg gradient gives the colour applied last on
\* every cell where the Styler already sets color.
C12_BuiltinOverStyler ==
    [][ (args.styler /\ styler # None /\ ret'.table # None)
        => /\ GradientRequested(args.bg, args.bg_kwargs)
              => GradientWins("background_gradient", args.bg,
                              "background-color")
           /\ GradientRequested(args.tg, args.tg_kwargs)
              => GradientWins("text_gradient", args.tg, "color") ]_vars

\* C12 over the calls in which no requested gradient names an unknown
\* colormap
C12_BuiltinOverStylerKnown ==
    [][ (args.styler /\ styler # None /\ ret'.table # None
         /\ ~UnknownColormap(args.bg) /\ ~UnknownColormap(args.tg))
        => /\ GradientRequested(args.bg, args.bg_kwargs)
              => GradientWins("background_gradient", args.bg,
                              "background-color")
           /\ GradientRequested(args.tg, args.tg_kwargs)
              => GradientWins("text_gradient", args.tg, "color") ]_vars

\* a style string of the form "on #rrggbb", lowercase hex digits
IsOnHexStyle(style) ==
    /\ Len(style) = 10
    /\ SubSeq(style, 1, 4) = <<"o", "n", " ", "#">>
    /\ \A k \in 5 .. 10 : \E d \in DOMAIN HexDigits : HexDigits[d] = style[k]

\* C13: the palette has exactly N entries for every N >= 0 and every
\* colormap name and the call does not raise: no entry for N = 0, N entries
\* "on #rrggbb" for a known colormap, "gradient" giving those of the default
\* colormap, and N empty strings for an unknown name.
C13_PaletteLength ==
    ret.called =>
        LET n == Len(args.index_values)
            name == IF args.colormap = "gradient" THEN "viridis"
                    ELSE args.colormap
        IN  /\ ret.raised = "none"
            /\ Len(ret.value) = n
            /\ name \in {"viridis", "plasma", "PuBu"}
                => \A i \in 1 .. n : IsOnHexStyle(ret.value[i])
            /\ name \notin {"viridis", "plasma", "PuBu"}
                => \A i \in 1 .. n : ret.value[i] = <<>>
            /\ args.colormap = "gradient"
                => ret.value =
                     _create_index_gradient_styles(args.index_values,
                                                   "viridis")

\* three labels over an unknown colormap: three empty strings
C13_Witness ==
    /\ ret.called
    /\ args.colormap = "no_such_colormap"
    /\ Len(args.index_values) = 3
    /\ ret.value = << <<>>, <<>>, <<>> >>

\* C14: for N > 1 and a known colormap the N palette entries are pairwise
\* distinct.
C14_PairwiseDistinct ==
    (ret.called /\ Len(args.index_values) > 1
     /\ args.colormap \in {"viridis", "plasma", "PuBu", "gradient"})
    => \A i, j \in DOMAIN ret.value : i # j => ret.value[i] # ret.value[j]

HexDigitValue(c) == (CHOOSE d \in DOMAIN HexDigits : HexDigits[d] = c) - 1

\* "#" and six lowercase hex digits
IsHexColor(v) ==
    /\ Len(v) = 7
    /\ v[1] = "#"
    /\ \A k \in 2 .. 7 : \E d \in DOMAIN HexDigits : HexDigits[d] = v[k]

\* the value of the two hex digits of v from position k
ChannelAt(v, k) == 16 * HexDigitValue(v[k]) + HexDigitValue(v[k + 1])

\* the result is the alpha-free hex form of the channels r, g, b
IsHexOf(v, r, g, b) ==
    /\ IsHexColor(v)
    /\ ChannelAt(v, 2) = r
    /\ ChannelAt(v, 4) = g
    /\ ChannelAt(v, 6) = b

\* C15: a hex colour, an rgb(r,g,b) expression, a named colour and malformed
\* text come back unchanged; rgba(r,g,b,a) comes back as "#" with exactly
\* two lowercase hex digits per channel, the alpha dropped.
C15_ParseColor ==
    ret.called =>
        IF args.form = "rgba"
        THEN IsHexOf(ret.value, args.r, args.g, args.b)
        ELSE ret.value = args.css_value

\* the same for texts without surrounding blanks, channels of at most 255
\* and nothing after an rgba expression
C15_ParseColorInRange ==
    (/\ ret.called
     /\ args.lead = <<>> /\ args.trail = <<>>
     /\ args.r <= 255 /\ args.g <= 255 /\ args.b <= 255
     /\ args.css_value # <<"r","g","b","a","(","7",",","7",",","7",",","1",")","x">>)
    => C15_ParseColor

\* the same for texts without surrounding blanks only
C15_ParseColorTrimmed ==
    (ret.called /\ args.lead = <<>> /\ args.trail = <<>>) => C15_ParseColor

\* the widest padding a cell of the sources receives
MaxPad == 20

\* text, possibly padded on the right
IsPadded(plain, text) == \E n \in 0 .. MaxPad : plain = text \o Spaces(n)

\* the text to_rich shows for the source cell (i, j), 0-based
ShownValue(i, j) ==
    _apply_styler_formatting(Cell(obj, <<i, j>>), i, j, locals.format_funcs)

LongestCell(o, k) == MaxLen([i \in 1 .. NRows(o) |-> o.data[i][k].s])

\* the width the claim gives the index column
IndexWidth(o) ==
    Max2(Len(IndexHeader(o.index)), MaxLen(IndexValues(o)))

\* C17: each data column's entry is max(length of its header, length of its
\* longest cell as a string), the header length with no rows; the key
\* "__index__" is present only when show_index is true and then holds
\* max(length of the index header, length of the longest formatted index
\* label); no data column's entry is overwritten by another entry.
C17_MeasureWidths ==
    ret.called =>
        LET df == args.df
            w == ret.value
        IN  /\ df.kind = "DataFrame"
                => \A k \in DOMAIN df.columns :
                     /\ df.columns[k] \in DOMAIN w
                     /\ w[df.columns[k]] =
                           Max2(Len(df.columns[k]), LongestCell(df, k))
            /\ df.kind = "Series"
                => /\ "__value__" \in DOMAIN w
                   /\ w["__value__"] =
                         Max2(Len(IF df.name = None THEN "Value"
                                  ELSE Val(df.name)),
                              LongestCell(df, 1))
            /\ args.show_index
                => ("__index__" \in DOMAIN w /\ w["__index__"] = IndexWidth(df))
            /\ ~args.show_index => "__index__" \notin DOMAIN w

\* the same for frames whose column labels are distinct and none of which
\* is "__index__"
C17_MeasureWidthsDistinct ==
    (/\ ret.called
     /\ \A k, m \in DOMAIN args.df.columns :
           /\ args.df.columns[k] # "__index__"
           /\ k # m => args.df.columns[k] # args.df.columns[m])
    => C17_MeasureWidths

\* a name that is neither missing nor the empty string
IsNamed(name) == name # None /\ name # Some(StrV(""))

\* what the claim gives level k (1-based) of a multi-level index
LevelHeader(index, k) ==
    IF IsNamed(index.names[k]) THEN Val(index.names[k]).s
    ELSE "Level_" \o Digits[k]

\* C18: the header of a multi-level index is its level names joined with
\* " | ", an unnamed level i contributing "Level_i"; the header of a flat
\* index is its name when that is not empty and "Index" otherwise; a
\* multi-level row label is its components joined with " | ", a missing
\* component contributing the empty string.
C18_HeaderName ==
    /\ (ret.called /\ ret.fn = "_get_index_header_name") =>
         /\ ret.raised = "none"
         /\ ret.value =
              IF args.index.multi
              THEN Some(StrV(Join([k \in DOMAIN args.index.names |->
                                     LevelHeader(args.index, k)], " | ")))
              ELSE IF IsNamed(args.index.names[1]) THEN args.index.names[1]
              ELSE Some(StrV("Index"))
    /\ (ret.called /\ ret.fn = "_format_multiindex_value") =>
         /\ ret.raised = "none"
         /\ ret.value =
              Some(StrV(_format_index_value(args.values[1]) \o " | "
                        \o _format_index_value(args.values[2])))

\* the same for indexes all of whose names are strings or missing
C18_HeaderNameStr ==
    (\A k \in DOMAIN args.index.names :
        args.index.names[k] # None => Val(args.index.names[k]).t = "str")
    => C18_HeaderName

\* C19: chunk with chunk_size 0 treats the size as 1: one single-element
\* sublist per element, in order, and no exception.
C19_ChunkZero ==
    (ret.called /\ args.chunk_size = 0)
    => /\ ret.raised = "none"
       /\ ret.value = [k \in DOMAIN args.iterable |-> <<args.iterable[k]>>]

\* the position of element k in the list stably sorted by string length
RankByLen(xs, k) ==
    1 + Cardinality({m \in DOMAIN xs :
                        \/ Len(xs[m]) < Len(xs[k])
                        \/ Len(xs[m]) = Len(xs[k]) /\ m < k})

\* the list stably sorted by string length
StablySorted(xs) ==
    [p \in DOMAIN xs |-> xs[CHOOSE k \in DOMAIN xs : RankByLen(xs, k) = p]]

ReadsMissing == args'.op = "getattr" /\ args'.key \notin DOMAIN obj

\* C21 as claimed: reading a missing key as an attribute raises
\* AttributeError and leaves the dictionary as it was.
C21_MissingAttribute ==
    [][ReadsMissing => (ret'.raised = "AttributeError" /\ obj' = obj)]_vars

\* C21 amended: reading a missing key as an attribute leaves the dictionary
\* as it was, and raises AttributeError unless the name is an attribute of
\* the dict class (keys, items, ...), which is returned.
C21_MissingAttributeOwn ==
    [][ReadsMissing =>
        /\ obj' = obj
        /\ args'.key \notin DictAttributes => ret'.raised = "AttributeError"
        /\ args'.key \in DictAttributes
            => (ret'.raised = "none" /\ ret'.value = BoundMethod(args'.key))
      ]_vars

\* after a set and a delete of another key, ad.c was read and raised, and
\* the dictionary still has one key
C21_Witness ==
    /\ ret.called
    /\ args.op = "getattr" /\ args.key = "c"
    /\ ret.raised = "AttributeError"
    /\ DOMAIN obj = {"d"}

\* C22: on a dictionary without key c, ad.c.d = value succeeds, stores a
\* new AttrDict under c and afterwards ad.c.d is value.
C22_ChainedAssignment ==
    [][(args'.op = "chained_set" /\ args'.key = "c" /\ "c" \notin DOMAIN obj)
        => /\ ret'.raised = "none"
           /\ "c" \in DOMAIN obj'
           /\ obj'["c"] = Nested(("d" :> args'.value))
           /\ ChainedRead(obj', "c", "d").value = args'.value
      ]_vars

Occurrences(xs, x) == Cardinality({k \in DOMAIN xs : xs[k] = x})

\* sys.path[position] of Python, for a position inside the list
PyIndex(xs, position) ==
    IF position >= 0 THEN xs[position + 1] ELSE xs[Len(xs) + position + 1]

\* what every addpath call keeps, whatever the position
AddPathKeeps ==
    LET added == AbsolutePath(args'.path)
    IN  /\ Occurrences(obj', added) = 1
        /\ Occurrences(obj, added) = 1 => Len(obj') = Len(obj)
        /\ Occurrences(obj, added) = 0 => Len(obj') = Len(obj) + 1
        /\ Without(obj', added) = Without(obj, added)
        /\ \A k \in DOMAIN obj : Occurrences(obj, obj[k]) = 1

\* C23 as claimed: after every call the added path occurs once, an already
\* present path leaves the length unchanged, the path sits at the
\* requested position and the other entries keep their order.
C23_AddPath ==
    [][ /\ AddPathKeeps
        /\ args'.position < Len(obj')
        /\ -args'.position <= Len(obj')
        /\ PyIndex(obj', args'.position) = AbsolutePath(args'.path) ]_vars

\* C23 amended: as claimed, except that the path sits where list.insert
\* puts it: at index position when 0 <= position <= number of other
\* entries, at the end when position is larger, and before the entry that
\* had index position when position is negative.
C23_AddPathInsert ==
    [][ /\ AddPathKeeps
        /\ LET others == Without(obj, AbsolutePath(args'.path))
               n == Len(others)
               p == args'.position
               at == IF p >= 0 THEN (IF p <= n THEN p ELSE n)
                     ELSE (IF n + p >= 0 THEN n + p ELSE 0)
           IN  /\ obj'[at + 1] = AbsolutePath(args'.path)
               /\ (0 <= p /\ p <= n)
                   => PyIndex(obj', p) = AbsolutePath(args'.path) ]_vars

\* /b was added, then added again under another spelling at the front
C23_Witness ==
    /\ ret.called
    /\ args = [path |-> "./b", position |-> 0]
    /\ obj = <<"/b", "/a", "/usr/lib", "/site-packages">>

\* the object can be written: it is not empty and every column has one
\* Arrow type
Supported(o) == ~IsEmpty(o) /\ "object" \notin MatrixDtypes(o)

\* C24: cache_and_load of a non-empty object of supported value types
\* returns an object equal to it: same kind, values, row index, columns
\* and name.
C24_RoundTrip ==
    (ret.called /\ args.op = "cache_and_load" /\ Supported(args.df)
     /\ ret.raised # "FileExistsError")
    => (ret.raised = "none" /\ ret.value = Some(args.df))

\* the same for objects that do not have both int and float columns and
\* that have more than one row when they are a Series
C24_RoundTripUniform ==
    (/\ MatrixDtypes(args.df) # {"int", "float"}
     /\ args.df.kind = "Series" => NRows(args.df) > 1)
    => C24_RoundTrip

\* the step saves (to_cache or cache_and_load)
Saves == args'.op \in {"_save_cache", "cache_and_load"}

\* the directory exists and holds something
NonEmptyDir(fs) == fs # None /\ DOMAIN Val(fs) # {}

\* the parts of C25 about what is raised and what is in the directory
SaveOutcome ==
    /\ (Saves /\ NonEmptyDir(obj) /\ ~args'.overwrite)
        => (ret'.raised = "FileExistsError" /\ obj' = obj)
    /\ (args'.op = "_save_cache" /\ NonEmptyDir(obj) /\ args'.overwrite
        /\ ret'.raised = "none")
        => (obj' # None /\ Val(obj') = CacheFiles(args'.df))
    /\ (Saves /\ IsEmpty(args'.df) /\ ~(NonEmptyDir(obj) /\ ~args'.overwrite))
        => ret'.raised = "ValueError"
    /\ (args'.op = "load_cache" /\ obj = None)
        => ret'.raised = "FileNotFoundError"

\* C25: a save to an existing non-empty path without overwrite raises
\* FileExistsError and leaves the directory as it was; with overwrite the
\* directory afterwards holds only the new cache and load_cache returns
\* the saved object; saving an empty object raises ValueError; load_cache
\* of a path that does not exist raises FileNotFoundError.
C25_SaveAndOverwrite ==
    [][ /\ SaveOutcome
        /\ (args'.op = "_save_cache" /\ NonEmptyDir(obj) /\ args'.overwrite
            /\ ret'.raised = "none")
            => load_cache(obj') = [raised |-> "none",
                                   value |-> Some(args'.df)] ]_vars

\* C25 without the object that load_cache returns
C25_SaveOutcomeOnly == [][SaveOutcome]_vars

\* C29: a save that raises leaves the directory as it was; a cache that
\* was there still loads to the same object.
C29_FailedSaveKeeps ==
    [][(Saves /\ ret'.raised \in {"ValueError", "FileExistsError"})
        => (obj' = obj /\ load_cache(obj') = load_cache(obj))]_vars

\* C29 for the saves that raise FileExistsError only
C29_RefusedSaveKeeps ==
    [][(Saves /\ ret'.raised = "FileExistsError")
        => (obj' = obj /\ load_cache(obj') = load_cache(obj))]_vars
(***************************************************************************)
(* FibCalculator                                                           *)
(***************************************************************************)
RECURSIVE Fibonacci(_)
Fibonacci(k) == IF k = 0 THEN 0
                ELSE IF k = 1 THEN 1
                ELSE Fibonacci(k - 1) + Fibonacci(k - 2)

CacheTrue == \A k \in DOMAIN obj : k >= 0 /\ obj[k] = Fibonacci(k)

ReturnsTrue == (ret.called /\ args.n >= 0)
                   => (ret.raised = "none"
                       /\ ret.value = Some(Fibonacci(args.n)))

RaisesNegative == (ret.called /\ args.n < 0) => ret.raised = "ValueError"

\* no step of a call with a negative index changes the cache
NegativeKeeps == [][args'.n < 0 => obj' = obj]_vars

\* a call that has begun ends, with a value or with an exception
Terminates == (~ret.called) ~> ret.called

\* C26: over any sequence of calls on one FibCalculator every entry k of
\* the memo cache is the Fibonacci number F(k); a call with n >= 0 ends and
\* returns F(n); a call with n < 0 raises ValueError and leaves the cache
\* as it was.
C26_FibCalculator ==
    /\ [](CacheTrue /\ ReturnsTrue /\ RaisesNegative)
    /\ NegativeKeeps
    /\ Terminates

\* fib(11) has returned 89 after computing and storing new entries
C26_Witness ==
    /\ ret.called /\ ret.raised = "none"
    /\ args.n = 11
    /\ ret.value = Some(89)
    /\ 11 \in DOMAIN obj
    /\ 6 \in DOMAIN obj
    /\ Idle

(***************************************************************************)
(* lcm                                                                     *)
(***************************************************************************)
Elements(a) == {a[i] : i \in DOMAIN a}

Zeros(a) == Cardinality({i \in DOMAIN a : a[i] = 0})

CommonMultiple(m, a) == \A v \in Elements(a) : m % v = 0

\* the least common multiple of the numbers of a: 0 when one of them is 0,
\* else the smallest positive number all of them divide
LeastCommonMultiple(a) ==
    IF 0 \in Elements(a) THEN 0
    ELSE CHOOSE m \in 1 .. (MaxArg + 1) * (MaxArg + 1) * (MaxArg + 1) :
            /\ CommonMultiple(m, a)
            /\ \A k \in 1 .. (m - 1) : ~CommonMultiple(k, a)

\* C27: lcm of one or more non-negative integers returns their least
\* common multiple, 0 when an argument is 0, and does not raise.
C27_Lcm ==
    ret.called => (ret.raised = "none"
                   /\ ret.value = LeastCommonMultiple(args.a))

\* the same for arguments with at most one zero among them
C27_LcmOneZero == Zeros(args.a) <= 1 => C27_Lcm

\* the arguments with two or more zeros raise ZeroDivisionError
C27_LcmZeros ==
    (ret.called /\ Zeros(args.a) >= 2) => ret.raised = "ZeroDivisionError"

(***************************************************************************)
(* Padding of the data cells to the measured column width                  *)
(***************************************************************************)
\* the width _measure_column_widths gives for the data column at position k
\* of the table
MeasuredWidth(k) ==
    _measure_column_widths(obj, args.show_index)[
        IF obj.kind = "DataFrame" THEN Table.columns[k].header
        ELSE "__value__"]

CellsHaveMeasuredWidth ==
    \A r \in DOMAIN Table.rows : \A k \in DataCells(r) :
        Len(Table.rows[r][k].plain) = MeasuredWidth(k)

\* C28: when backgrounds are present every rendered cell of a data column
\* has display text of the length the column was measured with, also when
\* the styler's formatting functions change the cell text.
C28_PaddedWidth ==
    (Returned /\ locals.has_backgrounds) => CellsHaveMeasuredWidth

\* the same when the styler has no formatting functions
C28_PaddedWidthUnformatted ==
    locals.format_funcs = EmptyDict => C28_PaddedWidth

(***************************************************************************)
(* find_instances                                                          *)
(***************************************************************************)
\* the modules whose tracker entries occur in t, with the instances found
RECURSIVE Found(_)
Found(t) ==
    UNION { IF t[n].kind = "inst" THEN {t[n].of} ELSE Found(t[n].d) :
            n \in DOMAIN t }

\* the modules reached from the set S through module attributes of the
\* same base package
RECURSIVE ReachFrom(_, _)
ReachFrom(graph, S) ==
    LET more == S \cup UNION { {t \in graph[m].refs :
                                    get_base_package(t) = get_base_package(m)} :
                               m \in S }
    IN  IF more = S THEN S ELSE ReachFrom(graph, more)

Matching == {m \in ReachFrom(obj, {args.module}) : obj[m].inst}

\* a module reached from the searched one leads back to itself
Cyclic ==
    \E m \in ReachFrom(obj, {args.module}) :
        \E t \in {t \in obj[m].refs :
                      get_base_package(t) = get_base_package(m)} :
            m \in ReachFrom(obj, {t})

\* C30: find_instances ends and returns a tracker, also when modules of
\* one base package refer to each other in a cycle, and every matching
\* instance reached through same-package module attributes is in it.
C30_FindInstances ==
    ret.called => (ret.raised = "none" /\ Found(ret.value) = Matching)

\* the same for modules that do not refer to each other in a cycle
C30_FindInstancesAcyclic == ~Cyclic => C30_FindInstances

\* every search over modules that refer to each other in a cycle ends in
\* RecursionError
C30_CyclicRaises ==
    (ret.called /\ Cyclic) => ret.raised = "RecursionError"

====
